---- MODULE Spec2Model ----
(***************************************************************************)
(* Model of the RTE Tempo Calendar API worker                              *)
(* (homeassistant/components/rtetempocalendar/api_worker.py): the worker   *)
(* thread APIWorker.run, its stop event, the two cached views and the      *)
(* pure functions it uses (payload parsing, wait-time planning).           *)
(*                                                                         *)
(* Encoding of time.  One unit is one minute.  A day number counts days    *)
(* from 2022-12-28 (day 0).  An aware datetime is a record                 *)
(*   [wall |-> minutes of the wall clock since day 0 00:00,                *)
(*    zone |-> "paris" (tzinfo is FRANCE_TZ) or "fixed" (a fixed offset),  *)
(*    off  |-> the fixed UTC offset in minutes (0 when zone = "paris"),    *)
(*    fold |-> the fold attribute (1: second reading of a repeated hour)]. *)
(* A date is a day number.  A timedelta is a number of minutes.            *)
(* A raw API timestamp string "YYYY-MM-DDTHH:MM:SS+HH:MM" is a record      *)
(*   [ok |-> TRUE, day, min, off]; a string strptime rejects has           *)
(*   ok = FALSE.  A JSON object is a record whose DOMAIN is its key set,   *)
(*   so a missing key is a field that is not in the DOMAIN.                *)
(***************************************************************************)
EXTENDS Integers, Sequences, FiniteSets, TLC

----------------------------------------------------------------------------
(* Bounds of the model *)

MaxCycles == 2
MaxEntries == 2

----------------------------------------------------------------------------
(* Constants of const.py *)

API_KEY_ERROR == "error"
API_KEY_ERROR_DESC == "error_description"
API_KEY_RESULTS == "tempo_like_calendars"
API_KEY_VALUES == "values"
API_KEY_START == "start_date"
API_KEY_END == "end_date"
API_KEY_VALUE == "value"
API_KEY_UPDATED == "updated_date"
API_VALUE_RED == "RED"
API_VALUE_WHITE == "WHITE"
API_VALUE_BLUE == "BLUE"

\* Day-change hour: imported by api_worker.py, documented as 6 AM.
API_HOUR_OF_CHANGE == 6

----------------------------------------------------------------------------
(* datetime arithmetic *)

Minutes(n) == n
Hours(n) == n * 60
Days(n) == n * 24 * 60

MinutesPerDay == Days(1)

\* timedelta.days and timedelta.seconds (here in minutes) of a normalised
\* timedelta: days is the floor, seconds is the non-negative remainder.
TdDays(td) == td \div MinutesPerDay
TdSeconds(td) == td % MinutesPerDay

\* Europe/Paris: UTC+1 in winter, UTC+2 from 2023-03-26 02:00 local
\* (01:00 UTC) to 2023-10-29 03:00 local (01:00 UTC).
\* 2023-03-26 is day 3 + 31 + 28 + 26 counted from 2022-12-28.
DstDay == 3 + 31 + 28 + 26
\* 2023-10-29, the day of the change back to winter time.
FallDay == DstDay + 5 + 30 + 31 + 30 + 31 + 31 + 30 + 29
\* The changes of 2022 (03-27 and 10-30), 52 weeks before those of 2023.
PrevDstDay == DstDay - 52 * 7
PrevFallDay == FallDay - 52 * 7

WinterOffset == Hours(1)
SummerOffset == Hours(2)

\* utcoffset of a Paris wall-clock time (fold = 0: a time in the gap
\* 02:00-03:00 of the day of the change to summer time takes the offset
\* before it, a time in the repeated hour of the change back is the first
\* of the two).
ParisOffsetWall(wall) ==
    IF \/ wall >= Days(DstDay) + Hours(3) /\ wall < Days(FallDay) + Hours(3)
       \/ wall >= Days(PrevDstDay) + Hours(3) /\ wall < Days(PrevFallDay) + Hours(3)
    THEN SummerOffset ELSE WinterOffset

\* utcoffset of Paris at a UTC time.
ParisOffsetUtc(utc) ==
    IF \/ utc >= Days(DstDay) + Hours(1) /\ utc < Days(FallDay) + Hours(1)
       \/ utc >= Days(PrevDstDay) + Hours(1) /\ utc < Days(PrevFallDay) + Hours(1)
    THEN SummerOffset ELSE WinterOffset

\* utcoffset of a Paris wall-clock time with its fold attribute: fold = 1
\* is the second reading of the repeated hour of the change back to winter
\* time (and, in the gap of the change to summer time, the offset after it).
ParisOffsetFold(wall, fold) ==
    IF fold = 0 THEN ParisOffsetWall(wall)
    ELSE IF \/ wall >= Days(DstDay) + Hours(2) /\ wall < Days(FallDay) + Hours(2)
            \/ wall >= Days(PrevDstDay) + Hours(2) /\ wall < Days(PrevFallDay) + Hours(2)
         THEN SummerOffset ELSE WinterOffset

ParisFold(wall, fold) == [wall |-> wall, zone |-> "paris", off |-> 0, fold |-> fold]
ParisDT(wall) == ParisFold(wall, 0)
FixedDT(wall, off) == [wall |-> wall, zone |-> "fixed", off |-> off, fold |-> 0]

\* The value None where a datetime is expected.
NoneDT == [wall |-> 0, zone |-> "none", off |-> 0, fold |-> 0]

UtcOffset(dt) ==
    IF dt.zone = "paris" THEN ParisOffsetFold(dt.wall, dt.fold) ELSE dt.off
ToUtc(dt) == dt.wall - UtcOffset(dt)

\* datetime.datetime.now(FRANCE_TZ) when the UTC clock reads utc: the wall
\* clock of Paris, with fold = 1 when that wall time is read for the second
\* time (the hour after the change back to winter time).
NowParis(utc) ==
    LET wall == utc + ParisOffsetUtc(utc)
    IN  ParisFold(wall, IF ParisOffsetWall(wall) = ParisOffsetUtc(utc) THEN 0 ELSE 1)

\* a - b on aware datetimes: same tzinfo object, the wall clocks are
\* subtracted; different tzinfo, both are converted to UTC first.
DtSub(a, b) ==
    IF a.zone = "paris" /\ b.zone = "paris"
    THEN a.wall - b.wall
    ELSE ToUtc(a) - ToUtc(b)

\* dt + timedelta keeps the tzinfo and moves the wall clock; the result has
\* fold = 0.
DtAdd(dt, td) == [dt EXCEPT !.wall = @ + td, !.fold = 0]

\* dt.date()
DateOf(dt) == dt.wall \div MinutesPerDay

\* datetime.combine(date, time(tzinfo=FRANCE_TZ)): local midnight of date.
ParisMidnight(date) == ParisDT(Days(date))

----------------------------------------------------------------------------
(* Schedule planner: APIWorker._compute_wait_time *)

\* The branch of line 136 left out.
wait_time_for_end_no_half_hour(localized_now, data_end) ==
    LET localized_today == ParisMidnight(DateOf(localized_now))
        diff == DtSub(data_end, localized_today)
    IN  IF TdDays(diff) = 2
        THEN LET tomorrow == DtAdd(localized_now, Days(1))
                 next_call == ParisDT(Days(DateOf(tomorrow)))
             IN  DtSub(next_call, localized_now)
        ELSE Hours(1)

\* Line 136 written as diff.days <= 1.
wait_time_for_end_le1(localized_now, data_end) ==
    LET localized_today == ParisMidnight(DateOf(localized_now))
        diff == DtSub(data_end, localized_today)
    IN  IF TdDays(diff) = 2
        THEN LET tomorrow == DtAdd(localized_now, Days(1))
                 next_call == ParisDT(Days(DateOf(tomorrow)))
             IN  DtSub(next_call, localized_now)
        ELSE IF TdDays(diff) <= 1
             THEN Minutes(30)
             ELSE Hours(1)

\* Lines 118-154: the wait when the last fetch returned an end date.
wait_time_for_end(localized_now, data_end) ==
    LET localized_today == ParisMidnight(DateOf(localized_now))
        diff == DtSub(data_end, localized_today)
    IN  IF TdDays(diff) = 2
        THEN LET tomorrow == DtAdd(localized_now, Days(1))
                 next_call == ParisDT(Days(DateOf(tomorrow)))
             IN  DtSub(next_call, localized_now)
        ELSE IF TdDays(diff) = 1
             THEN Minutes(30)
             ELSE Hours(1)

compute_wait_time_absent30(localized_now, data_end) ==
    IF data_end = NoneDT
    THEN Minutes(30)
    ELSE wait_time_for_end(localized_now, data_end)

compute_wait_time(localized_now, data_end) ==
    IF data_end = NoneDT
    THEN Minutes(10)
    ELSE wait_time_for_end(localized_now, data_end)

----------------------------------------------------------------------------
(* Parsing helpers of api_worker.py *)

RawTs(day, min, off) == [ok |-> TRUE, day |-> day, min |-> min, off |-> off]

\* A string that strptime rejects with ValueError.
MalformedTs == [ok |-> FALSE, day |-> 0, min |-> 0, off |-> 0]

\* The literal "2022-12-28T00:00:00+01:00".
KnownMissingStart == RawTs(0, 0, Hours(1))

\* parse_rte_api_datetime on a string strptime accepts.
parse_rte_api_datetime(date) == FixedDT(Days(date.day) + date.min, date.off)

\* parse_rte_api_date: the calendar date of the parsed datetime.
parse_rte_api_date(date) == DateOf(parse_rte_api_datetime(date))

\* The boundaries left where the API puts them.
adjust_tempo_time_unshifted(date) == date

adjust_tempo_time(date) == DtAdd(date, Hours(API_HOUR_OF_CHANGE))

\* Outcome of reading tempo_day[key] and, for a timestamp, parsing it.
FieldOutcome(tempo_day, key, parsed) ==
    IF key \notin DOMAIN tempo_day THEN "KeyError"
    ELSE IF parsed /\ ~tempo_day[key].ok THEN "ValueError"
    ELSE "ok"

RECURSIVE FirstFailure(_)
FirstFailure(outcomes) ==
    IF outcomes = <<>> THEN "ok"
    ELSE IF Head(outcomes) # "ok" THEN Head(outcomes)
    ELSE FirstFailure(Tail(outcomes))

\* Lines 213-232: the fields are read in the order Start, End, Value,
\* Updated; the first exception raised wins.
TryOutcome(tempo_day) ==
    FirstFailure(<< FieldOutcome(tempo_day, API_KEY_START, TRUE),
                    FieldOutcome(tempo_day, API_KEY_END, TRUE),
                    FieldOutcome(tempo_day, API_KEY_VALUE, FALSE),
                    FieldOutcome(tempo_day, API_KEY_UPDATED, TRUE) >>)

\* Lines 236-255: the substitution reads Start, End and Updated again.
SubstituteOutcome(tempo_day) ==
    FirstFailure(<< FieldOutcome(tempo_day, API_KEY_START, TRUE),
                    FieldOutcome(tempo_day, API_KEY_END, TRUE),
                    FieldOutcome(tempo_day, API_KEY_UPDATED, TRUE) >>)

TimeDay(tempo_day, value) ==
    [Start |-> adjust_tempo_time(parse_rte_api_datetime(tempo_day[API_KEY_START])),
     End |-> adjust_tempo_time(parse_rte_api_datetime(tempo_day[API_KEY_END])),
     Value |-> value,
     Updated |-> parse_rte_api_datetime(tempo_day[API_KEY_UPDATED])]

DateDay(tempo_day, value) ==
    [Start |-> parse_rte_api_date(tempo_day[API_KEY_START]),
     End |-> parse_rte_api_date(tempo_day[API_KEY_END]),
     Value |-> value,
     Updated |-> parse_rte_api_datetime(tempo_day[API_KEY_UPDATED])]

\* Line 244, 252: the value substituted for the known missing day.
SubstituteValue == API_VALUE_BLUE

\* The documented day not recognised.
IsKnownMissingDay_never(tempo_day) == FALSE

\* Line 234: is this the day RTE documented as missing its value?
IsKnownMissingDay(tempo_day) == tempo_day[API_KEY_START] = KnownMissingStart

\* One iteration of the loop of lines 211-261 on the lists built so far.
\* acc = [raised, time, date]; raised is "none" or the escaping exception.
ProcessDay(acc, tempo_day) ==
    LET try == TryOutcome(tempo_day)
    IN  IF try = "ok"
        THEN [acc EXCEPT
                !.time = Append(@, TimeDay(tempo_day, tempo_day[API_KEY_VALUE])),
                !.date = Append(@, DateDay(tempo_day, tempo_day[API_KEY_VALUE]))]
        ELSE IF try # "KeyError"
        THEN [acc EXCEPT !.raised = try]
        ELSE \* except KeyError
             IF API_KEY_START \notin DOMAIN tempo_day
             THEN [acc EXCEPT !.raised = "KeyError"]
             ELSE IF IsKnownMissingDay(tempo_day)
             THEN IF SubstituteOutcome(tempo_day) = "ok"
                  THEN [acc EXCEPT
                          !.time = Append(@, TimeDay(tempo_day, SubstituteValue)),
                          !.date = Append(@, DateDay(tempo_day, SubstituteValue))]
                  ELSE [acc EXCEPT !.raised = SubstituteOutcome(tempo_day)]
             ELSE acc  \* logged and skipped

RECURSIVE ParseDays(_, _)
ParseDays(acc, days) ==
    IF days = <<>> \/ acc.raised # "none" THEN acc
    ELSE ParseDays(ProcessDay(acc, Head(days)), Tail(days))

\* The error check left out.
IsApiError_unchecked(payload) == FALSE

\* Lines 201-207: the payload is an API error when both keys are present.
IsApiError(payload) ==
    API_KEY_ERROR \in DOMAIN payload /\ API_KEY_ERROR_DESC \in DOMAIN payload

\* Lines 209-261 on a payload that is not an API error: the two lists, or
\* the exception that escapes (payload[API_KEY_RESULTS][API_KEY_VALUES]
\* itself raises KeyError when a key is missing).
ParsePayload(payload) ==
    IF API_KEY_RESULTS \notin DOMAIN payload
       \/ API_KEY_VALUES \notin DOMAIN payload[API_KEY_RESULTS]
    THEN [raised |-> "KeyError", time |-> <<>>, date |-> <<>>]
    ELSE ParseDays([raised |-> "none", time |-> <<>>, date |-> <<>>],
                   payload[API_KEY_RESULTS][API_KEY_VALUES])

\* Line 266: parse_rte_api_datetime(payload[API_KEY_RESULTS][API_KEY_END]).
EndOutcome(payload) == FieldOutcome(payload[API_KEY_RESULTS], API_KEY_END, TRUE)
ResultsEnd(payload) == parse_rte_api_datetime(payload[API_KEY_RESULTS][API_KEY_END])

----------------------------------------------------------------------------
(* What the remote API can answer *)

\* Offset the server prints for local midnight of a day.
ServerOffset(day) == ParisOffsetWall(Days(day))
Midnight(day) == RawTs(day, 0, ServerOffset(day))

\* A JSON object with the given keys only.
AbsentTs == [ok |-> FALSE, day |-> 0 - 1, min |-> 0, off |-> 0]
AbsentValue == "<absent>"

DayEntry(start, end, value, updated) ==
    [k \in {kk \in {API_KEY_START, API_KEY_END, API_KEY_VALUE, API_KEY_UPDATED} :
              \/ kk = API_KEY_START /\ start # AbsentTs
              \/ kk = API_KEY_END /\ end # AbsentTs
              \/ kk = API_KEY_VALUE /\ value # AbsentValue
              \/ kk = API_KEY_UPDATED /\ updated # AbsentTs} |->
        CASE k = API_KEY_START -> start
          [] k = API_KEY_END -> end
          [] k = API_KEY_VALUE -> value
          [] OTHER -> updated]

UpdatedOf(day) == RawTs(day - 1, Hours(10) + 40, ServerOffset(day - 1))

GoodEntry(day, value) == DayEntry(Midnight(day), Midnight(day + 1), value, UpdatedOf(day))

\* The day of 2022-12-28 as the API serves it: no value.
KnownMissingEntry == DayEntry(KnownMissingStart, Midnight(1), AbsentValue, UpdatedOf(0))

DataPayload(values, end) ==
    IF end = AbsentTs
    THEN [r \in {API_KEY_RESULTS} |-> [v \in {API_KEY_VALUES} |-> values]]
    ELSE [r \in {API_KEY_RESULTS} |->
            [v \in {API_KEY_VALUES, API_KEY_END} |->
                IF v = API_KEY_VALUES THEN values ELSE end]]

ErrorPayload ==
    [k \in {API_KEY_ERROR, API_KEY_ERROR_DESC} |->
        IF k = API_KEY_ERROR THEN "invalid_request" ELSE "bad window"]

\* A JSON object that is neither an error nor a calendar.
ForeignPayload == [k \in {API_KEY_ERROR} |-> "short"]

JsonResponse(payload) == [json |-> TRUE, payload |-> payload]
\* A body that response.json() cannot decode.
NotJsonResponse == [json |-> FALSE, payload |-> [body |-> "<html>"]]

\* Answers the worker loop is run against on a given day.
LoopValues(today) ==
    { <<GoodEntry(today, API_VALUE_WHITE), GoodEntry(today + 1, API_VALUE_RED)>>,
      <<KnownMissingEntry, GoodEntry(today, API_VALUE_BLUE)>>,
      <<DayEntry(Midnight(today), Midnight(today + 1), AbsentValue, UpdatedOf(today)),
        GoodEntry(today + 1, API_VALUE_WHITE)>>,
      <<GoodEntry(today, API_VALUE_RED),
        DayEntry(AbsentTs, Midnight(today + 2), API_VALUE_RED, UpdatedOf(today + 1))>> }

LoopEnds(today) == { Midnight(today + 1), Midnight(today + 2), MalformedTs, AbsentTs }

LoopResponses(today) ==
    { JsonResponse(DataPayload(vs, e)) : vs \in LoopValues(today), e \in LoopEnds(today) }
    \cup { JsonResponse(ErrorPayload), JsonResponse(ForeignPayload), NotJsonResponse }

----------------------------------------------------------------------------
(* State *)

VARIABLES
    pc,               \* position of the worker thread in APIWorker.run
    token,            \* self._oauth.token: "empty", "valid" or "expired"
    stopevent,        \* self._stopevent is set
    adjusted_days,    \* self.adjusted_days
    tempo_days_time,  \* self._tempo_days_time
    tempo_days_date,  \* self._tempo_days_date
    clock,            \* the wall clock, UTC minutes
    localized_now,    \* run: localized_now of the current cycle
    retried,          \* _get_tempo_data is in its except branch
    response,         \* the HTTP response being processed
    parsed,           \* _update_tempo_days: the two local lists
    end,              \* run: end, the value _update_tempo_days returned
    wait_time,        \* run: wait_time
    cycle,            \* number of loop iterations started
    outcome,          \* how the current cycle ended ("none" while it runs)
    prevOutcome,      \* history: how the previous cycle ended
    cycleStart,       \* history: the two views when the cycle started
    time_ver,         \* history: cycle that wrote tempo_days_time
    date_ver,         \* history: cycle that wrote tempo_days_date
    obs,              \* history: what a reader last got from the getters
    stopPhase,        \* history: pc when signalstop was first called
    after,            \* history: what the worker did after the stop signal
    attempts,         \* history: calls made by the current _get_tempo_data
    lastOk,           \* history: the last cycle whose fetch returned
    options_updated,  \* history: update_options has been called
    params,           \* _get_tempo_data: params of the last request prepared
    housing_id,       \* TrybatecAPI.housing_id
    tb_token,         \* TrybatecAPI.token
    token_expire,     \* TrybatecAPI.token_expire
    tb_inflight,      \* the calls of TrybatecAPI methods awaiting a request
    tb_call,          \* history: the last call made by the observed caller
    sensors,          \* available and native_value of the four colour sensors
    last_update,      \* history: the last call of a sensor's update
    calendar_events,  \* history: the last call of the calendar's async_get_events
    consumption,      \* the Trybatec Consumption sensor's attributes
    last_async_update, \* history: the last call of Consumption.async_update
    instance,         \* custstats: StatsAPI's singleton instance (0: None)
    api,              \* custstats: clients, stats and task of that instance
    tasks,            \* custstats: the state of every polling task created
    entries,          \* custstats: the EntryAPIAccess created and not unloaded
    last_stats_call,  \* history: the last EntryAPIAccess creation or unload
    last_refresh      \* history: the last run of StatsAPI._update_stats

vars == << pc, token, stopevent, adjusted_days, tempo_days_time,
           tempo_days_date, clock, localized_now, retried, response, parsed,
           end, wait_time, cycle, outcome, prevOutcome, cycleStart, time_ver,
           date_ver, obs, stopPhase, after, attempts, lastOk,
           options_updated, params, housing_id, tb_token, token_expire,
           tb_inflight, tb_call,
           sensors, last_update, calendar_events, consumption,
           last_async_update, instance, api, tasks, entries, last_stats_call,
           last_refresh >>

workerLocals == << localized_now, retried, response, parsed, end, wait_time >>
cache == << tempo_days_time, tempo_days_date, time_ver, date_ver >>
history == << prevOutcome, cycleStart, obs, stopPhase, after >>
calls == << attempts, lastOk, options_updated, params >>
trybatec == << housing_id, tb_token, token_expire, tb_inflight, tb_call >>
entities == << sensors, last_update, calendar_events >>
custstats == << instance, api, tasks, entries, last_stats_call, last_refresh >>
addons == << consumption, last_async_update, custstats >>
components == << trybatec, entities, addons >>

\* start.strftime(API_DATE_FORMAT): date, time of day and the offset as
\* four digits without a colon.
strftime(dt) ==
    [day |-> DateOf(dt), min |-> dt.wall % MinutesPerDay, off |-> UtcOffset(dt),
     colon |-> FALSE]

\* Lines 166-167: s[:-2] + ":" + s[-2:], the form the API reads and writes.
with_colon(str) == RawTs(str.day, str.min, str.off)

\* Lines 190-196 and 164-168: the window of reftime's day and the request
\* parameters made of it.
api_params(reftime, start_before_days, end_after_days) ==
    LET localized_date == ParisMidnight(DateOf(reftime))
        start == DtAdd(localized_date, 0 - Days(start_before_days))
        end_ == DtAdd(localized_date, Days(end_after_days))
    IN  [start_date |-> with_colon(strftime(start)),
         end_date |-> with_colon(strftime(end_))]

\* No request has been prepared yet.
NoParams == [start_date |-> AbsentTs, end_date |-> AbsentTs]

\* No request and no login has been made by _get_tempo_data.
NoAttempts == [gets |-> 0, logins |-> 0]

\* No response has been received in the current call of _update_tempo_days.
NoResponse == [json |-> FALSE, payload |-> <<>>]
NoParsed == [time |-> <<>>, date |-> <<>>]

\* Local winter time (UTC+1) of a day as a UTC clock value.
LocalWinter(day, min) == Days(day) + min - WinterOffset

\* The worker may be started at local midnight, at noon, or in the last
\* half hour before the day of the change to summer time.
InitClocks ==
    { LocalWinter(DstDay - 2, 0),
      LocalWinter(DstDay - 2, Hours(12)),
      LocalWinter(DstDay - 1, Hours(23) + 30) }

\* The value None of an attribute that holds a string.
None == "None"

\* The value None where a token string is expected.
NoToken ==
    [id |-> 0 - 1, dots |-> FALSE, b64 |-> FALSE, json |-> FALSE,
     claims |-> [k \in {"none"} |-> 0]]

\* The callers of the Trybatec client: two coroutines of one event loop (two
\* sensors, or the config flow and a sensor). A call runs until it awaits a
\* request; the other caller runs while it waits.
Callers == {1, 2}

\* A caller that has no call in progress.
NoCall == [op |-> "none", stage |-> "idle"]

\* TrybatecAPI.__init__ (lines 47-49): nothing is known yet.
InitTrybatecAPI ==
    /\ housing_id = None
    /\ tb_token = NoToken
    /\ token_expire = NoneDT
    /\ tb_inflight = [c \in Callers |-> NoCall]
    /\ tb_call = [op |-> "none"]

\* CurrentColor.__init__ and NextColor.__init__, with and without emoji:
\* no value yet, and the entity's default of being available.
InitSensors ==
    /\ sensors = [kind \in {"current", "next"} |->
                    [emoji \in BOOLEAN |->
                        [available |-> TRUE, native_value |-> None]]]
    /\ last_update = [kind |-> "none"]
    /\ calendar_events = [called |-> FALSE]

\* Consumption.__init__ (trybatec/sensor.py, lines 152 and 178): no value and
\* no time of a last valid value; the entity's default of being available.
InitConsumption ==
    /\ consumption = [c \in Callers |->
                        [last_valid_value_time |-> NoneDT, native_value |-> None,
                         available |-> TRUE]]
    /\ last_async_update = [called |-> FALSE,
                            data_day |-> [c \in Callers |-> 0 - 1]]

\* An instance without the attribute clients, and the attributes of an
\* instance that __init__ has not run on.
NoClients == [present |-> FALSE, ids |-> {}]
NoAttributes == [clients |-> NoClients, stats |-> "none", task |-> 0]

\* custstats before the first EntryAPIAccess: Singleton.__instance is None
\* (custstats/api.py, line 24) and no task exists.
InitStatsAPI ==
    /\ instance = 0
    /\ api = NoAttributes
    /\ tasks = << >>
    /\ entries = {}
    /\ last_stats_call = [op |-> "none"]
    /\ last_refresh = [done |-> FALSE]

\* The history variables before anything happened.
InitHistory ==
    /\ InitTrybatecAPI
    /\ InitSensors
    /\ InitConsumption
    /\ InitStatsAPI
    /\ outcome = "none"
    /\ prevOutcome = "none"
    /\ cycleStart = [time |-> <<>>, date |-> <<>>]
    /\ time_ver = 0
    /\ date_ver = 0
    /\ obs = [adjusted |-> 0, calendar |-> 0, pending |-> "none"]
    /\ stopPhase = "none"
    /\ after = [logins |-> 0, fetches |-> 0, sleeps |-> 0]
    /\ attempts = NoAttempts
    /\ lastOk = 0
    /\ options_updated = FALSE
    /\ params = NoParams

\* APIWorker.__init__
Init ==
    /\ pc = "init"
    /\ token = "empty"
    /\ stopevent = FALSE
    /\ adjusted_days \in BOOLEAN
    /\ tempo_days_time = <<>>
    /\ tempo_days_date = <<>>
    /\ clock \in InitClocks
    /\ localized_now = NowParis(clock)
    /\ retried = FALSE
    /\ response = NoResponse
    /\ parsed = NoParsed
    /\ end = NoneDT
    /\ wait_time = 0
    /\ cycle = 0
    /\ InitHistory

\* An exception that nothing in run catches ends the thread.
Raise(stage) ==
    /\ pc' = "dead"
    /\ outcome' = stage

Count(field) ==
    after' = IF stopevent THEN [after EXCEPT ![field] = @ + 1] ELSE after

----------------------------------------------------------------------------
(* The worker thread: APIWorker.run *)

\* Thread.start(): run is entered, stop = False.
Start ==
    /\ pc = "init"
    /\ pc' = "loop"
    /\ UNCHANGED << token, stopevent, adjusted_days, cache, clock,
                    workerLocals, cycle, outcome, history >>
    /\ UNCHANGED calls
    /\ UNCHANGED components

\* Line 84 left out: the iteration goes straight to the request.
LoopTop_skips_login ==
    /\ pc = "loop"
    /\ cycle' = cycle + 1
    /\ outcome' = "none"
    /\ prevOutcome' = outcome
    /\ cycleStart' = [time |-> tempo_days_time, date |-> tempo_days_date]
    /\ pc' = "fetch"
    /\ UNCHANGED << token, stopevent, adjusted_days, cache, clock,
                    workerLocals, obs, stopPhase, after >>
    /\ UNCHANGED calls
    /\ UNCHANGED components

\* Lines 82-85: a new iteration; log in first when there is no token.
LoopTop ==
    /\ pc = "loop"
    /\ cycle' = cycle + 1
    /\ outcome' = "none"
    /\ prevOutcome' = outcome
    /\ cycleStart' = [time |-> tempo_days_time, date |-> tempo_days_date]
    /\ pc' = IF token = "empty" THEN "login" ELSE "fetch"
    /\ UNCHANGED << token, stopevent, adjusted_days, cache, clock,
                    workerLocals, obs, stopPhase, after >>
    /\ UNCHANGED calls
    /\ UNCHANGED components

\* Lines 85, 156-158: fetch_token either stores a token or raises.
Login ==
    /\ pc = "login"
    /\ Count("logins")
    /\ \E ok \in BOOLEAN :
         IF ok
         THEN /\ token' = "valid"
              /\ pc' = "fetch"
              /\ UNCHANGED outcome
         ELSE /\ Raise("exc_login")
              /\ UNCHANGED token
    /\ UNCHANGED << stopevent, adjusted_days, cache, clock, workerLocals,
                    cycle, prevOutcome, cycleStart, obs, stopPhase >>
    /\ UNCHANGED calls
    /\ UNCHANGED components

\* The window of the first cycle used again by the later ones.
BeginFetch_reuses_window ==
    /\ pc = "fetch"
    /\ localized_now' = NowParis(clock)
    /\ retried' = FALSE
    /\ response' = NoResponse
    /\ parsed' = NoParsed
    /\ IF token = "expired"
       THEN /\ pc' = "relogin"
            /\ UNCHANGED after
       ELSE /\ pc' = "request"
            /\ Count("fetches")
    /\ UNCHANGED << token, stopevent, adjusted_days, cache, clock, end,
                    wait_time, cycle, outcome, prevOutcome, cycleStart, obs,
                    stopPhase >>
    /\ attempts' = [gets |-> 1, logins |-> 0]
    /\ params' = IF params = NoParams
                 THEN api_params(localized_now', 364, 2)
                 ELSE params
    /\ UNCHANGED << lastOk, options_updated >>
    /\ UNCHANGED components

\* Lines 87-90, 191-198, 164-180: read the clock, enter _update_tempo_days
\* (no response, no list yet) and send the request; with an expired token
\* the session raises TokenExpiredError instead.
BeginFetch ==
    /\ pc = "fetch"
    /\ localized_now' = NowParis(clock)
    /\ retried' = FALSE
    /\ response' = NoResponse
    /\ parsed' = NoParsed
    /\ IF token = "expired"
       THEN /\ pc' = "relogin"
            /\ UNCHANGED after
       ELSE /\ pc' = "request"
            /\ Count("fetches")
    /\ UNCHANGED << token, stopevent, adjusted_days, cache, clock, end,
                    wait_time, cycle, outcome, prevOutcome, cycleStart, obs,
                    stopPhase >>
    /\ attempts' = [gets |-> 1, logins |-> 0]
    /\ params' = api_params(localized_now', 364, 2)
    /\ UNCHANGED << lastOk, options_updated >>
    /\ UNCHANGED components

\* Lines 181-183: log in again and send the request a second time.
Relogin ==
    /\ pc = "relogin"
    /\ \E ok \in BOOLEAN :
         IF ok
         THEN /\ token' = "valid"
              /\ pc' = "request"
              /\ retried' = TRUE
              /\ after' = IF stopevent
                          THEN [after EXCEPT !.logins = @ + 1, !.fetches = @ + 1]
                          ELSE after
              /\ UNCHANGED outcome
         ELSE /\ Raise("exc_relogin")
              /\ Count("logins")
              /\ UNCHANGED << token, retried >>
    /\ UNCHANGED << stopevent, adjusted_days, cache, clock, localized_now,
                    response, parsed, end, wait_time, cycle, prevOutcome,
                    cycleStart, obs, stopPhase >>
    /\ attempts' = [gets |-> attempts.gets + (IF pc' = "request" THEN 1 ELSE 0),
                     logins |-> attempts.logins + 1]
    /\ UNCHANGED << lastOk, options_updated, params >>
    /\ UNCHANGED components

\* A failed request answered by another login and another request.
Request_retries_again ==
    /\ pc = "request"
    /\ \/ /\ \E r \in LoopResponses(DateOf(localized_now)) : response' = r
          /\ pc' = "parse"
          /\ UNCHANGED outcome
       \/ /\ pc' = "relogin"
          /\ UNCHANGED << outcome, response >>
    /\ UNCHANGED << token, stopevent, adjusted_days, cache, clock,
                    localized_now, retried, parsed, end, wait_time, cycle,
                    history >>
    /\ UNCHANGED calls
    /\ UNCHANGED components

\* Lines 178-185: the request returns a response or raises.
Request ==
    /\ pc = "request"
    /\ \/ /\ \E r \in LoopResponses(DateOf(localized_now)) : response' = r
          /\ pc' = "parse"
          /\ UNCHANGED outcome
       \/ /\ Raise("exc_request")
          /\ UNCHANGED response
    /\ UNCHANGED << token, stopevent, adjusted_days, cache, clock,
                    localized_now, retried, parsed, end, wait_time, cycle,
                    history >>
    /\ UNCHANGED calls
    /\ UNCHANGED components

\* Lines 199-261: decode the body, handle an API error, build the lists.
Parse ==
    /\ pc = "parse"
    /\ IF ~response.json
       THEN /\ Raise("exc_json")
            /\ UNCHANGED << parsed, end >>
       ELSE IF IsApiError(response.payload)
       THEN /\ end' = NoneDT
            /\ pc' = "compute"
            /\ outcome' = "api_error"
            /\ UNCHANGED parsed
       ELSE LET lists == ParsePayload(response.payload)
            IN  IF lists.raised # "none"
                THEN /\ Raise("exc_parse")
                     /\ UNCHANGED << parsed, end >>
                ELSE /\ parsed' = [time |-> lists.time, date |-> lists.date]
                     /\ pc' = "save_time"
                     /\ UNCHANGED << outcome, end >>
    /\ UNCHANGED << token, stopevent, adjusted_days, cache, clock,
                    localized_now, retried, response, wait_time, cycle,
                    history >>
    /\ UNCHANGED calls
    /\ UNCHANGED components

\* The new list added to the old one.
SaveTime_appends ==
    /\ pc = "save_time"
    /\ tempo_days_time' = tempo_days_time \o parsed.time
    /\ time_ver' = cycle
    /\ pc' = "save_date"
    /\ UNCHANGED << token, stopevent, adjusted_days, tempo_days_date, date_ver,
                    clock, workerLocals, cycle, outcome, history >>
    /\ UNCHANGED calls
    /\ UNCHANGED components

\* Line 263
SaveTime ==
    /\ pc = "save_time"
    /\ tempo_days_time' = parsed.time
    /\ time_ver' = cycle
    /\ pc' = "save_date"
    /\ UNCHANGED << token, stopevent, adjusted_days, tempo_days_date, date_ver,
                    clock, workerLocals, cycle, outcome, history >>
    /\ UNCHANGED calls
    /\ UNCHANGED components

\* Line 264
SaveDate ==
    /\ pc = "save_date"
    /\ tempo_days_date' = parsed.date
    /\ date_ver' = cycle
    /\ pc' = "return_end"
    /\ UNCHANGED << token, stopevent, adjusted_days, tempo_days_time, time_ver,
                    clock, workerLocals, cycle, outcome, history >>
    /\ UNCHANGED calls
    /\ UNCHANGED components

\* Line 266: the end date of the window is parsed last.
ReturnEnd ==
    /\ pc = "return_end"
    /\ IF EndOutcome(response.payload) # "ok"
       THEN /\ Raise("exc_end")
            /\ UNCHANGED end
       ELSE /\ end' = ResultsEnd(response.payload)
            /\ pc' = "compute"
            /\ outcome' = "ok"
    /\ UNCHANGED << token, stopevent, adjusted_days, cache, clock,
                    localized_now, retried, response, parsed, wait_time,
                    cycle, history >>
    /\ lastOk' = IF pc' = "compute" THEN cycle ELSE lastOk
    /\ UNCHANGED << attempts, options_updated, params >>
    /\ UNCHANGED components

\* Line 92
Compute ==
    /\ pc = "compute"
    /\ wait_time' = compute_wait_time(localized_now, end)
    /\ pc' = "wait"
    /\ UNCHANGED << token, stopevent, adjusted_days, cache, clock,
                    localized_now, retried, response, parsed, end, cycle,
                    outcome, history >>
    /\ UNCHANGED calls
    /\ UNCHANGED components

\* threading.Event.wait(timeout): True as soon as the flag is set, False
\* when the timeout elapses with the flag still clear.
event_wait_ignores_flag(flag) == FALSE

event_wait(flag) == flag

\* A wait that sleeps its whole timeout before it looks at the event.
WaitStopped_sleeps_first ==
    /\ pc = "wait"
    /\ stopevent
    /\ clock' = clock + TdSeconds(wait_time)
    /\ Count("sleeps")
    /\ pc' = "done"
    /\ UNCHANGED << token, stopevent, adjusted_days, cache, workerLocals,
                    cycle, outcome, prevOutcome, cycleStart, obs, stopPhase >>
    /\ UNCHANGED calls
    /\ UNCHANGED components

\* A wait whose result is lost: the event is set, and the loop goes round.
WaitStopped_loses_result ==
    /\ pc = "wait"
    /\ event_wait(stopevent)
    /\ cycle < MaxCycles
    /\ pc' = "loop"
    /\ UNCHANGED << token, stopevent, adjusted_days, cache, clock,
                    workerLocals, cycle, outcome, history >>
    /\ UNCHANGED calls
    /\ UNCHANGED components

\* Line 93, the event is set: stop = True and the loop exits (line 95).
WaitStopped ==
    /\ pc = "wait"
    /\ event_wait(stopevent)
    /\ pc' = "done"
    /\ UNCHANGED << token, stopevent, adjusted_days, cache, clock,
                    workerLocals, cycle, outcome, history >>
    /\ UNCHANGED calls
    /\ UNCHANGED components

\* Line 93, the timeout elapses: wait_time.seconds later stop = False and
\* the loop goes round.
WaitTimeout ==
    /\ pc = "wait"
    /\ ~event_wait(stopevent)
    /\ cycle < MaxCycles
    /\ clock' = clock + TdSeconds(wait_time)
    /\ Count("sleeps")
    /\ pc' = "loop"
    /\ UNCHANGED << token, stopevent, adjusted_days, cache, workerLocals,
                    cycle, outcome, prevOutcome, cycleStart, obs, stopPhase >>
    /\ UNCHANGED calls
    /\ UNCHANGED components

----------------------------------------------------------------------------
(* The other threads and the environment *)

\* APIWorker.signalstop
SignalStop ==
    /\ stopevent' = TRUE
    /\ stopPhase' = IF stopevent THEN stopPhase ELSE pc
    /\ stopevent = FALSE
    /\ UNCHANGED << pc, token, adjusted_days, cache, clock, workerLocals,
                    cycle, outcome, prevOutcome, cycleStart, obs, after >>
    /\ UNCHANGED calls
    /\ UNCHANGED components

\* An update of the options that sends the worker back to the top of its loop.
UpdateOptions_restarts ==
    /\ \E b \in BOOLEAN : adjusted_days' = b
    /\ adjusted_days' # adjusted_days
    /\ pc' = "loop"
    /\ UNCHANGED << token, stopevent, cache, clock, workerLocals, cycle,
                    outcome, history >>
    /\ options_updated' = TRUE
    /\ UNCHANGED << attempts, lastOk, params >>
    /\ UNCHANGED components

\* APIWorker.update_options
UpdateOptions ==
    /\ \E b \in BOOLEAN : adjusted_days' = b
    /\ adjusted_days' # adjusted_days
    /\ UNCHANGED << pc, token, stopevent, cache, clock, workerLocals, cycle,
                    outcome, history >>
    /\ options_updated' = TRUE
    /\ UNCHANGED << attempts, lastOk, params >>
    /\ UNCHANGED components

\* APIWorker.get_adjusted_days
get_adjusted_days == tempo_days_time

\* APIWorker.get_calendar_days
get_calendar_days == IF adjusted_days THEN tempo_days_time ELSE tempo_days_date

\* Which fetch the list get_adjusted_days returns comes from.
get_adjusted_days_ver == time_ver

\* Which fetch the list get_calendar_days returns comes from.
get_calendar_days_ver == IF adjusted_days THEN time_ver ELSE date_ver

\* A reader calls the two getters one after the other, in either order;
\* they are two calls without a lock, and the worker may run between them.
\* obs.pending names the getter already called of a pair in progress; the
\* first call of a pair drops what the pair before it had got.
\* What the reader holds after calling get_adjusted_days.
AfterAdjusted ==
    IF obs.pending = "none"
    THEN [adjusted |-> get_adjusted_days_ver, calendar |-> 0, pending |-> "adjusted"]
    ELSE [adjusted |-> get_adjusted_days_ver, calendar |-> obs.calendar,
          pending |-> "none"]

\* What the reader holds after calling get_calendar_days.
AfterCalendar ==
    IF obs.pending = "none"
    THEN [adjusted |-> 0, calendar |-> get_calendar_days_ver, pending |-> "calendar"]
    ELSE [adjusted |-> obs.adjusted, calendar |-> get_calendar_days_ver,
          pending |-> "none"]

\* A reader that takes the adjusted list away.
ReadViews_consumes ==
    /\ obs.pending \in {"none", "calendar"}
    /\ obs' = AfterAdjusted
    /\ UNCHANGED << pc, token, stopevent, adjusted_days, tempo_days_date, time_ver,
                    date_ver, clock,
                    workerLocals, cycle, outcome, prevOutcome, cycleStart,
                    stopPhase, after >>
    /\ UNCHANGED calls
    /\ UNCHANGED components
    /\ tempo_days_time' = << >>

\* The reader calls get_adjusted_days (lines 74-76).
ReadAdjusted ==
    /\ obs.pending \in {"none", "calendar"}
    /\ obs' = AfterAdjusted
    /\ UNCHANGED << pc, token, stopevent, adjusted_days, cache, clock,
                    workerLocals, cycle, outcome, prevOutcome, cycleStart,
                    stopPhase, after >>
    /\ UNCHANGED calls
    /\ UNCHANGED components

\* The reader calls get_calendar_days (lines 68-72).
ReadCalendar ==
    /\ obs.pending \in {"none", "adjusted"}
    /\ obs' = AfterCalendar
    /\ UNCHANGED << pc, token, stopevent, adjusted_days, cache, clock,
                    workerLocals, cycle, outcome, prevOutcome, cycleStart,
                    stopPhase, after >>
    /\ UNCHANGED calls
    /\ UNCHANGED components

\* A reader calls a getter.
ReadViews == ReadAdjusted \/ ReadCalendar

\* The token's lifetime runs out.
TokenExpires ==
    /\ token = "valid"
    /\ token' = "expired"
    /\ UNCHANGED << pc, stopevent, adjusted_days, cache, clock, workerLocals,
                    cycle, outcome, history >>
    /\ UNCHANGED calls
    /\ UNCHANGED components

Worker ==
    \/ Start \/ LoopTop \/ Login \/ BeginFetch \/ Relogin \/ Request
    \/ Parse \/ SaveTime \/ SaveDate \/ ReturnEnd \/ Compute
    \/ WaitStopped \/ WaitTimeout

\* The worker and what acts on it. The getters change nothing but what
\* their caller holds; readers are part of SpecReaders below.
Next == Worker \/ SignalStop \/ UpdateOptions \/ TokenExpires

Spec == Init /\ [][Next]_vars

\* The worker, started at local midnight with the default preference, and a
\* reader thread next to the other callers.
InitReaders == Init /\ ~adjusted_days /\ clock = LocalWinter(DstDay - 2, 0)

NextReaders == Next \/ ReadViews

SpecReaders == InitReaders /\ [][NextReaders]_vars

----------------------------------------------------------------------------
(* _update_tempo_days on one response: the parser run from line 199 on    *)
(* every payload of a bounded family, in the worker's first cycle.        *)

ParseDay == DstDay - 2

SeqsUpTo(S, n) == UNION { [1..k -> S] : k \in 0..n }

\* A timestamp field: present and valid, absent, or malformed.
TsField(kind, good) ==
    CASE kind = "ok" -> good
      [] kind = "absent" -> AbsentTs
      [] OTHER -> MalformedTs

FieldKinds == {"ok", "absent", "malformed"}
ParseValueOptions == {API_VALUE_RED, "PURPLE", AbsentValue}

Bad(kind) == IF kind = "ok" THEN 0 ELSE 1

\* Defects of end, value and updated: at most one of them, or a missing
\* value together with one more defect.
FieldDefects ==
    { t \in FieldKinds \X ParseValueOptions \X FieldKinds :
        \/ Bad(t[1]) + (IF t[2] = API_VALUE_RED THEN 0 ELSE 1) + Bad(t[3]) <= 1
        \/ t[2] = AbsentValue /\ Bad(t[1]) + Bad(t[3]) = 1 }

StartDay(start) == IF start = KnownMissingStart THEN 0 ELSE ParseDay

Variant(start, ek, value, uk) ==
    DayEntry(start,
             TsField(ek, Midnight(StartDay(start) + 1)),
             value,
             TsField(uk, UpdatedOf(StartDay(start))))

ParseEntries ==
    { Variant(s, t[1], t[2], t[3]) :
        s \in {KnownMissingStart, Midnight(ParseDay)}, t \in FieldDefects }
    \cup { Variant(s, "ok", v, "ok") :
             s \in {AbsentTs, MalformedTs}, v \in {API_VALUE_RED, AbsentValue} }

ParseEnds == { Midnight(ParseDay + 2), AbsentTs }

ParseResponses ==
    { JsonResponse(DataPayload(vs, e)) :
        vs \in SeqsUpTo(ParseEntries, MaxEntries), e \in ParseEnds }

InitParse ==
    /\ pc = "parse"
    /\ token = "valid"
    /\ stopevent = FALSE
    /\ adjusted_days = TRUE
    /\ tempo_days_time = <<>>
    /\ tempo_days_date = <<>>
    /\ clock = LocalWinter(ParseDay, Hours(12))
    /\ localized_now = NowParis(clock)
    /\ retried = FALSE
    /\ response \in ParseResponses
    /\ parsed = NoParsed
    /\ end = NoneDT
    /\ wait_time = 0
    /\ cycle = 1
    /\ InitHistory

NextParse == Parse \/ SaveTime \/ SaveDate \/ ReturnEnd

SpecParse == InitParse /\ [][NextParse]_vars

----------------------------------------------------------------------------
(* _compute_wait_time on its own: line 92 run on a bounded family of      *)
(* (now, end) pairs around the change to summer time.                     *)

PlannerSpan == 2

\* The days around the two changes of the UTC offset.
PlannerDays ==
    (DstDay - PlannerSpan)..(DstDay + PlannerSpan)
    \cup (FallDay - PlannerSpan)..(FallDay + PlannerSpan)

\* Local wall-clock times of day at which the cycle may run.
PlannerTimes == { 0, 1, Minutes(30), Hours(6), Hours(12), Hours(23) + 59 }

PlannerNows == { ParisDT(Days(d) + m) : d \in PlannerDays, m \in PlannerTimes }

\* The end of the window: None, the midnight the server prints for a day
\* near today, or such a day at 05:00.
PlannerEndDays ==
    (DstDay - PlannerSpan - 1)..(DstDay + PlannerSpan + 3)
    \cup (FallDay - PlannerSpan - 1)..(FallDay + PlannerSpan + 3)

PlannerEnds ==
    { NoneDT }
    \cup { parse_rte_api_datetime(Midnight(d)) : d \in PlannerEndDays }
    \cup { parse_rte_api_datetime(RawTs(d, Hours(5), ServerOffset(d))) :
             d \in PlannerEndDays }

InitPlanner ==
    /\ pc = "compute"
    /\ token = "valid"
    /\ stopevent = FALSE
    /\ adjusted_days = TRUE
    /\ tempo_days_time = <<>>
    /\ tempo_days_date = <<>>
    /\ localized_now \in PlannerNows
    /\ clock = ToUtc(localized_now)
    /\ retried = FALSE
    /\ response = NoResponse
    /\ parsed = NoParsed
    /\ end \in PlannerEnds
    /\ wait_time = 0
    /\ cycle = 1
    /\ InitHistory

NextPlanner == Compute

SpecPlanner == InitPlanner /\ [][NextPlanner]_vars

----------------------------------------------------------------------------
(* The Trybatec client: TrybatecAPI in trybatec/api.py.  Each public      *)
(* method is one action; the server's answer to a login is drawn from a   *)
(* bounded family.                                                        *)

MaxTicks == 3
MaxHalfDays == 3
MaxTasks == 3

\* The clock when the client is created, and the last clock value reached:
\* from 2023-10-29T00:59Z, the last minute of summer time in Paris (02:59,
\* fold 0), into the repeated hour (02:00, fold 1).
TbStart == Days(FallDay) + Hours(1) - 1
TbLast == TbStart + MaxTicks

\* A token string: has it a second dot-separated part, is that part
\* base64, is the decoded part JSON, and the claims the JSON holds.
TbTokenString(id, dots, b64, js, claims) ==
    [id |-> id, dots |-> dots, b64 |-> b64, json |-> js, claims |-> claims]

ExpClaims(exp) == [k \in {"exp"} |-> exp]
NoClaims == [k \in {"iat"} |-> 0]

\* A well-formed token that expires at exp, issued at clock value id.
GoodToken(id, exp) == TbTokenString(id, TRUE, TRUE, TRUE, ExpClaims(exp))

\* The tokens the server may issue at clock value now: well-formed ones that
\* expire now or later, and defective ones.
TbTokens(now) ==
    { GoodToken(now, now), GoodToken(now, now + MaxTicks - 1),
      TbTokenString(now, FALSE, TRUE, TRUE, ExpClaims(now)),
      TbTokenString(now, TRUE, FALSE, TRUE, ExpClaims(now)),
      TbTokenString(now, TRUE, TRUE, FALSE, ExpClaims(now)),
      TbTokenString(now, TRUE, TRUE, TRUE, NoClaims) }

LoginPayload(housing, tok) ==
    [k \in {kk \in {"housingId", "token"} :
              \/ kk = "housingId" /\ housing # None
              \/ kk = "token" /\ tok # NoToken} |->
        IF k = "housingId" THEN housing ELSE tok]

\* Answers of POST /api/v1/authenticate at clock value now.
TbLoginAnswers(now) ==
    { [status |-> 401, payload |-> LoginPayload(None, NoToken)] }
    \cup { [status |-> 200, payload |-> LoginPayload("h1", tok)] : tok \in TbTokens(now) }
    \cup { [status |-> 200, payload |-> LoginPayload(None, GoodToken(now, now))],
           [status |-> 200, payload |-> LoginPayload("h1", NoToken)] }

TokenState(h, t, e) == [housing_id |-> h, token |-> t, token_expire |-> e]

\* Lines 81-86: the handler of KeyError and IndexError.
LoginReset == TokenState(None, NoToken, NoneDT)

\* datetime.fromtimestamp(ts, tz=timezone.utc)
FromTimestampUtc(ts) == FixedDT(ts, 0)

\* TrybatecAPI._login (lines 51-86) on answer ans, from state st: the state
\* it leaves and the exception it raises.
login(st, ans) ==
    IF ans.status # 200
    THEN [state |-> st, raised |-> "AssertionError"]
    ELSE IF "housingId" \notin DOMAIN ans.payload \/ "token" \notin DOMAIN ans.payload
    THEN [state |-> LoginReset, raised |-> "APIError"]
    ELSE LET h == ans.payload["housingId"]
             t == ans.payload["token"]
         IN  IF ~t.dots
             THEN [state |-> LoginReset, raised |-> "APIError"]
             ELSE IF ~t.b64 \/ ~t.json
             THEN [state |-> TokenState(h, t, st.token_expire), raised |-> "ValueError"]
             ELSE IF "exp" \notin DOMAIN t.claims
             THEN [state |-> LoginReset, raised |-> "APIError"]
             ELSE [state |-> TokenState(h, t, FromTimestampUtc(t.claims["exp"])),
                   raised |-> "none"]

\* The test of line 96 answered without looking at the clock.
token_expired_never(now, expire) == FALSE

\* Line 96: localized_now > self.token_expire, two aware datetimes of
\* different time zones, compared as instants.
token_expired(now, expire) == ToUtc(now) > ToUtc(expire)

\* Lengths of the list get_data returns: no data, one day of data.
ConsumptionData == { 0, 1 }

\* TrybatecAPI._refresh_token, the tests of lines 91 and 96: does it call
\* _login?
refresh_token(st, now) ==
    \/ st.token_expire = NoneDT
    \/ token_expired(NowParis(now), st.token_expire)

TbState == TokenState(housing_id, tb_token, token_expire)

\* The caller whose calls of the client's methods the history variable
\* tb_call follows; the callers run the same code. A sensor's update has its
\* own record, last_async_update.
Observed == 1

\* tb_call after a step of caller c in a call of op that leaves the call as
\* record call.
Follow(c, op, call) ==
    tb_call' = IF c = Observed /\ op # "async_update" THEN call ELSE tb_call

\* What Consumption.async_update does with what get_data returned or raised
\* (lines 200-213); data is the length of the list returned. Nothing assigns
\* _last_valid_value_time: the two lines that would are comments.
AfterGetData(c, gets, cause, failed, data) ==
    LET call == tb_inflight[c]
    IN  IF call.op # "async_update"
        THEN UNCHANGED << consumption, last_async_update >>
        ELSE /\ consumption' =
                    IF failed THEN consumption
                    ELSE [consumption EXCEPT ![c].native_value = None,
                                             ![c].available = FALSE]
             /\ last_async_update' =
                    [called |-> TRUE, sensor |-> c, day |-> DateOf(call.now),
                     requests |-> gets, cause |-> cause,
                     data |-> IF failed THEN 0 ELSE data,
                     had_data_on |-> last_async_update.data_day[c],
                     data_day |-> IF ~failed /\ data > 0
                                  THEN [last_async_update.data_day EXCEPT
                                           ![c] = DateOf(call.now)]
                                  ELSE last_async_update.data_day]

\* A public method up to its first await: _refresh_token's tests, then the
\* login request, or the method's own request built with self.token
\* (sends), or the return of a method that has no request.
TbMethod(c, op, sends) ==
    LET login_needed == refresh_token(TbState, clock)
        stage == IF login_needed THEN "login" ELSE IF sends THEN "get" ELSE "idle"
        started == [op |-> op, done |-> stage = "idle", before |-> TbState,
                    now |-> clock,
                    posts |-> IF login_needed THEN 1 ELSE 0,
                    gets |-> IF stage = "get" THEN 1 ELSE 0,
                    bearer |-> IF stage = "get" THEN tb_token ELSE NoToken,
                    refreshed |-> TbState, cause |-> "none", raised |-> "none"]
    IN  /\ tb_inflight[c].stage = "idle"
        /\ tb_inflight' = [tb_inflight EXCEPT ![c] =
              IF stage = "idle" THEN NoCall
              ELSE [op |-> op, stage |-> stage,
                    now |-> IF op = "async_update" THEN NowParis(clock) ELSE NoneDT]]
        /\ Follow(c, op, started)
        /\ UNCHANGED << housing_id, tb_token, token_expire >>
        /\ UNCHANGED << pc, token, stopevent, adjusted_days, cache, clock,
                        workerLocals, cycle, outcome, history, calls, entities,
                        addons >>

\* TrybatecAPI.test_login (lines 162-167)
test_login == \E c \in Callers : TbMethod(c, "test_login", FALSE)

\* TrybatecAPI.get_devices (lines 107-128)
get_devices == \E c \in Callers : TbMethod(c, "get_devices", TRUE)

\* TrybatecAPI.get_data (lines 130-160)
get_data == \E c \in Callers : TbMethod(c, "get_data", TRUE)

\* The answer of the login request arrives: _login goes on from line 52 to
\* its end on the state as it is now, and the caller goes on to its own
\* request, built with the token just stored, or returns; an exception
\* leaves the method as APIError.
login_answer ==
    \E c \in Callers, ans \in TbLoginAnswers(clock) :
        LET call == tb_inflight[c]
            r == login(TbState, ans)
            failed == r.raised # "none"
            sends == ~failed /\ call.op # "test_login"
        IN  /\ call.stage = "login"
            /\ housing_id' = r.state.housing_id
            /\ tb_token' = r.state.token
            /\ token_expire' = r.state.token_expire
            /\ tb_inflight' = [tb_inflight EXCEPT ![c] =
                  IF sends THEN [call EXCEPT !.stage = "get"] ELSE NoCall]
            /\ Follow(c, call.op, [tb_call EXCEPT
                            !.done = ~sends,
                            !.refreshed = r.state,
                            !.gets = IF sends THEN 1 ELSE 0,
                            !.bearer = IF sends THEN r.state.token ELSE NoToken,
                            !.cause = r.raised,
                            !.raised = IF failed THEN "APIError" ELSE "none"])
            /\ IF failed THEN AfterGetData(c, 0, r.raised, TRUE, 0)
               ELSE UNCHANGED << consumption, last_async_update >>
            /\ UNCHANGED custstats
            /\ UNCHANGED << pc, token, stopevent, adjusted_days, cache, clock,
                            workerLocals, cycle, outcome, history, calls,
                            entities >>

\* The answer of the method's own request arrives (get_ok: status 200 and
\* a JSON body, a list of data entries for the consumption): the method
\* returns it or raises APIError.
get_answer ==
    \E c \in Callers, get_ok \in BOOLEAN :
      \E data \in IF tb_inflight[c].op = "async_update" /\ get_ok
                   THEN ConsumptionData ELSE {0} :
        /\ tb_inflight[c].stage = "get"
        /\ tb_inflight' = [tb_inflight EXCEPT ![c] = NoCall]
        /\ Follow(c, tb_inflight[c].op, [tb_call EXCEPT
                        !.done = TRUE,
                        !.raised = IF get_ok THEN "none" ELSE "APIError"])
        /\ AfterGetData(c, 1, "none", ~get_ok, data)
        /\ UNCHANGED << housing_id, tb_token, token_expire, custstats >>
        /\ UNCHANGED << pc, token, stopevent, adjusted_days, cache, clock,
                        workerLocals, cycle, outcome, history, calls,
                        entities >>

\* Time passes between two steps.
TbTick ==
    /\ clock < TbLast
    /\ clock' = clock + 1
    /\ UNCHANGED << pc, token, stopevent, adjusted_days, cache, workerLocals,
                    cycle, outcome, history, calls, components >>

InitTrybatec ==
    /\ pc = "init"
    /\ token = "empty"
    /\ stopevent = FALSE
    /\ adjusted_days = TRUE
    /\ tempo_days_time = <<>>
    /\ tempo_days_date = <<>>
    /\ clock = TbStart
    /\ localized_now = NowParis(clock)
    /\ retried = FALSE
    /\ response = NoResponse
    /\ parsed = NoParsed
    /\ end = NoneDT
    /\ wait_time = 0
    /\ cycle = 0
    /\ InitHistory

NextTrybatec ==
    test_login \/ get_devices \/ get_data \/ login_answer \/ get_answer \/ TbTick

SpecTrybatec == InitTrybatec /\ [][NextTrybatec]_vars

----------------------------------------------------------------------------
(* The Trybatec Consumption sensor: trybatec/sensor.py, async_update *)

\* Consumption.async_update (lines 181-215) of the sensor of caller c, up to
\* its first await: the test of the day, then get_data.
async_update ==
    \E c \in Callers :
        LET now == NowParis(clock)
            skip == /\ consumption[c].last_valid_value_time # NoneDT
                    /\ DateOf(now) = DateOf(consumption[c].last_valid_value_time)
        IN  IF skip
            THEN /\ tb_inflight[c].stage = "idle"
                 /\ last_async_update' =
                        [called |-> TRUE, sensor |-> c, day |-> DateOf(now),
                         requests |-> 0, cause |-> "skipped", data |-> 0,
                         had_data_on |-> last_async_update.data_day[c],
                         data_day |-> last_async_update.data_day]
                 /\ last_async_update' # last_async_update
                 /\ UNCHANGED << pc, token, stopevent, adjusted_days, cache, clock,
                                 workerLocals, cycle, outcome, history, calls,
                                 trybatec, entities, consumption, custstats >>
            ELSE TbMethod(c, "async_update", TRUE)

\* Half a day passes between two polls of the sensor.
HalfDayPasses ==
    /\ clock < TbStart + MaxHalfDays * Hours(12)
    /\ clock' = clock + Hours(12)
    /\ UNCHANGED << pc, token, stopevent, adjusted_days, cache, workerLocals,
                    cycle, outcome, history, calls, components >>

NextConsumption == async_update \/ login_answer \/ get_answer \/ HalfDayPasses

SpecConsumption == InitTrybatec /\ [][NextConsumption]_vars

----------------------------------------------------------------------------
(* The statistics controller: custstats/api.py *)

\* The config entries that may get an EntryAPIAccess.
EntryIds == { "e1", "e2" }

\* Answers of GET STATS_PAGE: the page, an error status, and a request that
\* raises.
StatsAnswers ==
    { [raises |-> FALSE, status |-> 200], [raises |-> FALSE, status |-> 500],
      [raises |-> TRUE, status |-> 0] }

\* Singleton.__new__ (lines 26-30): the existing instance if there is one,
\* else a new object.
Singleton_new(inst) == IF inst = 0 THEN 1 ELSE inst

\* Singleton.unload_singleton (lines 32-34): the assignment binds a local
\* name, the class attribute keeps the instance.
unload_singleton(inst) == inst

\* StatsAPI.__init__ (lines 95-107), which Python runs on the object that
\* __new__ returned, new or not: empty clients, empty stats, a new task.
StatsAPI_init(st, new_task) ==
    [clients |-> [present |-> TRUE, ids |-> {}], stats |-> "empty",
     task |-> new_task]

\* StatsAPI.register_api_client (lines 139-143)
register_api_client(st, entity_id) ==
    [state |-> [st EXCEPT !.clients.ids = @ \cup {entity_id}],
     result |-> Cardinality(st.clients.ids \cup {entity_id})]

\* Task.cancel(): a task that is not done yet is cancelled.
cancel(ts, i) ==
    IF ts[i] \in {"scheduled", "fetching", "sleeping"}
    THEN [ts EXCEPT ![i] = "cancelled"] ELSE ts

\* StatsAPI.unregister_api_client (lines 145-153): the state it leaves, the
\* exception it raises, the number it returns, and whether it went through
\* lines 150-152. Line 148 is del (self.clients, entity_id): it deletes the
\* attribute clients (and the local name), not the entry of the dictionary.
unregister_api_client(st, entity_id) ==
    IF ~st.clients.present
    THEN [state |-> st, raised |-> "AttributeError", result |-> 0 - 1,
          last |-> FALSE]
    ELSE LET deleted == [st EXCEPT !.clients = NoClients]
         IN  IF ~deleted.clients.present
             THEN [state |-> deleted, raised |-> "AttributeError",
                   result |-> 0 - 1, last |-> FALSE]
             ELSE [state |-> deleted, raised |-> "none",
                   result |-> Cardinality(deleted.clients.ids),
                   last |-> deleted.clients.ids = {}]

\* EntryAPIAccess.__init__ (lines 159-166): StatsAPI(hass), that is __new__
\* and __init__, then register_api_client.
EntryAPIAccess_init ==
    \E id \in EntryIds \ entries :
        LET inst == Singleton_new(instance)
            initialized == StatsAPI_init(api, Len(tasks) + 1)
            registered == register_api_client(initialized, id)
        IN  /\ Len(tasks) < MaxTasks
            /\ instance' = inst
            /\ api' = registered.state
            /\ tasks' = Append(tasks, "scheduled")
            /\ entries' = entries \cup {id}
            /\ last_stats_call' =
                   [op |-> "create", id |-> id, instance_before |-> instance,
                    instance |-> inst, before |-> api, after |-> registered.state,
                    entries_before |-> entries, result |-> registered.result,
                    raised |-> "none"]
            /\ UNCHANGED last_refresh
            /\ UNCHANGED << pc, token, stopevent, adjusted_days, cache, clock,
                            workerLocals, cycle, outcome, history, calls,
                            trybatec, entities, consumption, last_async_update >>

\* EntryAPIAccess.unload (lines 182-187)
unload ==
    \E id \in entries :
        LET r == unregister_api_client(api, id)
        IN  /\ api' = r.state
            /\ tasks' = IF r.last THEN cancel(tasks, api.task) ELSE tasks
            /\ instance' = IF r.last THEN unload_singleton(instance) ELSE instance
            /\ entries' = entries \ {id}
            /\ last_stats_call' =
                   [op |-> "unload", id |-> id, instance_before |-> instance,
                    instance |-> instance', before |-> api, after |-> r.state,
                    entries_before |-> entries, result |-> r.result,
                    raised |-> r.raised]
            /\ UNCHANGED last_refresh
            /\ UNCHANGED << pc, token, stopevent, adjusted_days, cache, clock,
                            workerLocals, cycle, outcome, history, calls,
                            trybatec, entities, consumption, last_async_update >>

\* StatsAPI.loop, line 128: a task that starts or wakes up tests
\* len(self.clients) > 0. Without the attribute the test raises
\* AttributeError, which line 134 catches: the task ends.
loop ==
    \E i \in DOMAIN tasks :
        /\ tasks[i] \in {"scheduled", "sleeping"}
        /\ tasks' = [tasks EXCEPT ![i] =
                        IF api.clients.present /\ api.clients.ids # {}
                        THEN "fetching" ELSE "finished"]
        /\ UNCHANGED << instance, api, entries, last_stats_call, last_refresh >>
        /\ UNCHANGED << pc, token, stopevent, adjusted_days, cache, clock,
                        workerLocals, cycle, outcome, history, calls,
                        trybatec, entities, consumption, last_async_update >>

\* StatsAPI._update_stats (lines 109-123) and the sleep of line 131: the
\* answer arrives, stats is replaced, every client is notified and the task
\* sleeps. An exception of the request, or of self.clients when the
\* attribute is gone, is caught at line 134 and ends the task.
update_stats ==
    \E i \in DOMAIN tasks, ans \in StatsAnswers :
        LET fetched == IF ans.status = 200 THEN "page" ELSE "empty"
            notifies == ~ans.raises /\ api.clients.present
        IN  /\ tasks[i] = "fetching"
            /\ api' = IF ans.raises THEN api ELSE [api EXCEPT !.stats = fetched]
            /\ tasks' = [tasks EXCEPT ![i] =
                            IF notifies THEN "sleeping" ELSE "finished"]
            /\ last_refresh' =
                   [done |-> TRUE, task |-> i, fetched |-> ~ans.raises,
                    raised |-> ~notifies,
                    clients |-> api.clients.ids,
                    notified |-> IF notifies THEN api.clients.ids ELSE {}]
            /\ UNCHANGED << instance, entries, last_stats_call >>
            /\ UNCHANGED << pc, token, stopevent, adjusted_days, cache, clock,
                            workerLocals, cycle, outcome, history, calls,
                            trybatec, entities, consumption, last_async_update >>

NextStats == EntryAPIAccess_init \/ unload \/ loop \/ update_stats

SpecStats == InitTrybatec /\ [][NextStats]_vars

----------------------------------------------------------------------------
(* The colour sensors: CurrentColor and NextColor in sensor.py, each with *)
(* and without emoji, reading the adjusted view of a worker whose cache   *)
(* holds what one fetch stored.                                           *)

SENSOR_COLOR_BLUE_EMOJI == "SENSOR_COLOR_BLUE_EMOJI"
SENSOR_COLOR_WHITE_EMOJI == "SENSOR_COLOR_WHITE_EMOJI"
SENSOR_COLOR_RED_EMOJI == "SENSOR_COLOR_RED_EMOJI"
SENSOR_COLOR_UNKNOWN_EMOJI == "SENSOR_COLOR_UNKNOWN_EMOJI"
SENSOR_COLOR_BLUE_NAME == "SENSOR_COLOR_BLUE_NAME"
SENSOR_COLOR_WHITE_NAME == "SENSOR_COLOR_WHITE_NAME"
SENSOR_COLOR_RED_NAME == "SENSOR_COLOR_RED_NAME"
SENSOR_COLOR_UNKNOWN_NAME == "SENSOR_COLOR_UNKNOWN_NAME"

\* sensor.get_color_emoji
get_color_emoji(value) ==
    IF value = API_VALUE_RED THEN SENSOR_COLOR_RED_EMOJI
    ELSE IF value = API_VALUE_WHITE THEN SENSOR_COLOR_WHITE_EMOJI
    ELSE IF value = API_VALUE_BLUE THEN SENSOR_COLOR_BLUE_EMOJI
    ELSE SENSOR_COLOR_UNKNOWN_EMOJI

\* sensor.get_color_name
get_color_name(value) ==
    IF value = API_VALUE_RED THEN SENSOR_COLOR_RED_NAME
    ELSE IF value = API_VALUE_WHITE THEN SENSOR_COLOR_WHITE_NAME
    ELSE IF value = API_VALUE_BLUE THEN SENSOR_COLOR_BLUE_NAME
    ELSE SENSOR_COLOR_UNKNOWN_NAME

\* a < b and a <= b on aware datetimes: the wall clocks when both carry the
\* same tzinfo object, the instants otherwise.
DtLt(a, b) ==
    IF a.zone = "paris" /\ b.zone = "paris"
    THEN a.wall < b.wall
    ELSE ToUtc(a) < ToUtc(b)

DtLe(a, b) ==
    IF a.zone = "paris" /\ b.zone = "paris"
    THEN a.wall <= b.wall
    ELSE ToUtc(a) <= ToUtc(b)

\* The test of line 123 with the end of the day included.
is_current_closed(tempo_day, now) ==
    DtLe(tempo_day.Start, now) /\ DtLe(now, tempo_day.End)

\* Line 123: tempo_day.Start <= localized_now < tempo_day.End
is_current(tempo_day, now) ==
    DtLe(tempo_day.Start, now) /\ DtLt(now, tempo_day.End)

\* The test of line 190 with a day that starts now included.
is_next_or_now(tempo_day, now) == DtLe(now, tempo_day.Start)

\* Line 190: localized_now < tempo_day.Start
is_next(tempo_day, now) == DtLt(now, tempo_day.Start)

\* No day was found by the loop.
NoRecord == [Start |-> NoneDT, End |-> NoneDT, Value |-> None, Updated |-> NoneDT]

\* Lines 122-130: the loop returns at the first day that contains now.
RECURSIVE query_current(_, _)
query_current(days, now) ==
    IF days = <<>> THEN NoRecord
    ELSE IF is_current(Head(days), now) THEN Head(days)
    ELSE query_current(Tail(days), now)

\* Lines 189-197: the loop returns at the first day that starts after now.
RECURSIVE query_next(_, _)
query_next(days, now) ==
    IF days = <<>> THEN NoRecord
    ELSE IF is_next(Head(days), now) THEN Head(days)
    ELSE query_next(Tail(days), now)

ColorOf(emoji, value) ==
    IF emoji THEN get_color_emoji(value) ELSE get_color_name(value)

SensorState(available, native_value) ==
    [available |-> available, native_value |-> native_value]

\* CurrentColor.update (lines 119-134)
CurrentColorUpdate(emoji) ==
    LET now == NowParis(clock)
        tempo_day == query_current(get_adjusted_days, now)
    IN  /\ sensors' = [sensors EXCEPT !["current"][emoji] =
                         IF tempo_day # NoRecord
                         THEN SensorState(TRUE, ColorOf(emoji, tempo_day.Value))
                         ELSE SensorState(FALSE, None)]
        /\ last_update' = [kind |-> "current", emoji |-> emoji, now |-> now,
                           record |-> tempo_day]
        /\ UNCHANGED calendar_events
        /\ UNCHANGED << pc, token, stopevent, adjusted_days, cache, clock,
                        workerLocals, cycle, outcome, history, calls, trybatec, addons >>

\* NextColor.update (lines 186-205)
NextColorUpdate(emoji) ==
    LET now == NowParis(clock)
        tempo_day == query_next(get_adjusted_days, now)
    IN  /\ sensors' = [sensors EXCEPT !["next"][emoji] =
                         IF tempo_day # NoRecord
                         THEN SensorState(TRUE, ColorOf(emoji, tempo_day.Value))
                         ELSE IF emoji
                         THEN SensorState(TRUE, SENSOR_COLOR_UNKNOWN_EMOJI)
                         ELSE SensorState(FALSE, None)]
        /\ last_update' = [kind |-> "next", emoji |-> emoji, now |-> now,
                           record |-> tempo_day]
        /\ UNCHANGED calendar_events
        /\ UNCHANGED << pc, token, stopevent, adjusted_days, cache, clock,
                        workerLocals, cycle, outcome, history, calls, trybatec, addons >>

\* 2024-01-01, counted from 2022-12-28.
FixtureDay == 4 + 365

\* The instance attributes of an APIWorker (api_worker.py lines 52-66) and
\* its methods; the attributes of threading.Thread are not among the names
\* the entities read.
APIWorkerAttributes ==
    { "_stopevent", "_auth", "_oauth", "_tempo_days_time", "_tempo_days_date",
      "adjusted_days", "get_calendar_days", "get_adjusted_days", "run",
      "signalstop", "update_options" }

\* Lines 80-85: the three tests under which a day becomes an event.
event_in_range(tempo_day, start_date, end_date) ==
    \/ DtLe(start_date, tempo_day.Start) /\ DtLe(tempo_day.End, end_date)
    \/ /\ DtLt(tempo_day.Start, start_date)
       /\ DtLt(start_date, tempo_day.End)
       /\ DtLt(tempo_day.End, end_date)
    \/ /\ DtLt(start_date, tempo_day.Start)
       /\ DtLt(tempo_day.Start, end_date)
       /\ DtLt(end_date, tempo_day.End)

\* Ranges the calendar is asked for: from a local midnight or noon to a
\* later one.
QueryRanges ==
    LET edges == { ParisDT(Days(d) + m) : d \in FixtureDay..(FixtureDay + 1),
                                          m \in {0, Hours(API_HOUR_OF_CHANGE)} }
    IN  { r \in edges \X edges : r[1].wall < r[2].wall }

\* TempoCalendar.async_get_events (lines 71-93): line 79 reads
\* self._api_worker.tempo_days; when the worker has no such attribute the
\* read raises AttributeError and no list is returned.
async_get_events ==
    \E r \in QueryRanges :
        /\ calendar_events' =
               IF "tempo_days" \in APIWorkerAttributes
               THEN [called |-> TRUE, start_date |-> r[1], end_date |-> r[2],
                     raised |-> "none",
                     events |-> SelectSeq(get_calendar_days,
                                          LAMBDA d : event_in_range(d, r[1], r[2]))]
               ELSE [called |-> TRUE, start_date |-> r[1], end_date |-> r[2],
                     raised |-> "AttributeError", events |-> << >>]
        /\ calendar_events' # calendar_events
        /\ UNCHANGED << pc, token, stopevent, adjusted_days, cache, clock,
                        workerLocals, cycle, outcome, history, calls, trybatec,
                        sensors, last_update, addons >>

\* Calendars the cache is filled from: two consecutive days, the same in
\* reverse order, two days that overlap, two days with a day between them,
\* a day of an unknown colour, and no day at all.
QueryValues ==
    { << GoodEntry(FixtureDay, API_VALUE_WHITE), GoodEntry(FixtureDay + 1, API_VALUE_RED) >>,
      << GoodEntry(FixtureDay + 1, API_VALUE_RED), GoodEntry(FixtureDay, API_VALUE_WHITE) >>,
      << DayEntry(Midnight(FixtureDay), Midnight(FixtureDay + 2), API_VALUE_BLUE,
                  UpdatedOf(FixtureDay)),
         GoodEntry(FixtureDay + 1, API_VALUE_RED) >>,
      << GoodEntry(FixtureDay - 1, API_VALUE_BLUE), GoodEntry(FixtureDay + 1, API_VALUE_WHITE) >>,
      << GoodEntry(FixtureDay, "GREEN") >>,
      << >> }

\* Times of day at which a sensor is updated: around the hour of change.
QueryTimes ==
    { Hours(API_HOUR_OF_CHANGE) - 1, Hours(API_HOUR_OF_CHANGE),
      Hours(API_HOUR_OF_CHANGE + 1) }

QueryClocks ==
    { LocalWinter(d, m) : d \in (FixtureDay - 1)..(FixtureDay + 2), m \in QueryTimes }

InitQuery ==
    /\ pc = "wait"
    /\ token = "valid"
    /\ stopevent = FALSE
    /\ adjusted_days \in BOOLEAN
    /\ \E values \in QueryValues :
         LET lists == ParsePayload(DataPayload(values, Midnight(FixtureDay + 2)))
         IN  /\ tempo_days_time = lists.time
             /\ tempo_days_date = lists.date
    /\ clock \in QueryClocks
    /\ localized_now = NowParis(clock)
    /\ retried = FALSE
    /\ response = NoResponse
    /\ parsed = NoParsed
    /\ end = NoneDT
    /\ wait_time = 0
    /\ cycle = 1
    /\ InitHistory

NextQuery ==
    \/ \E emoji \in BOOLEAN : CurrentColorUpdate(emoji) \/ NextColorUpdate(emoji)
    \/ async_get_events

SpecQuery == InitQuery /\ [][NextQuery]_vars

----------------------------------------------------------------------------
(* Properties *)

ExceptionOutcomes ==
    { "exc_login", "exc_relogin", "exc_request", "exc_json", "exc_parse", "exc_end" }

\* C1: an exception raised in a cycle is caught and the loop goes on: as
\* long as no stop was signalled the worker thread is never ended by an
\* exception.
C1_ExceptionNeverEndsLoop == (stopPhase = "none") => (pc # "dead")

\* C2: a failed login does not abort the worker: it is at most waiting
\* the 10-minute fallback or on its way to the next login, still without
\* a token.
C2_LoginFailureKeepsWorker ==
    (outcome = "exc_login") =>
        /\ pc \in {"compute", "wait", "loop", "done"}
        /\ token = "empty"
        /\ (pc = "wait" => wait_time = Minutes(10))

\* C3: a reader calling get_adjusted_days and get_calendar_days, whatever
\* the worker does meanwhile, never gets two lists that come from different
\* fetches.
C3_ViewsReplacedTogether == obs.pending = "none" => obs.adjusted = obs.calendar

\* C4: when signalstop is called during the sleep, the wait returns
\* without sleeping further, the loop exits, and no login and no fetch is
\* issued after the signal.
C4_StopDuringSleep ==
    (stopPhase = "wait") =>
        /\ pc \in {"wait", "done"}
        /\ after = [logins |-> 0, fetches |-> 0, sleeps |-> 0]

C4_Witness == stopPhase = "wait" /\ pc = "done" /\ cycle = 2

FetchPhases == {"request", "parse", "save_time", "save_date", "return_end"}

\* C5: when signalstop is called while a fetch is in flight, the fetch
\* runs to its end (a successful one has replaced both views with its own
\* lists), then the loop exits: no sleep and no further login or fetch.
C5_StopDuringFetch ==
    (stopPhase \in FetchPhases) =>
        /\ pc \in FetchPhases \cup {"compute", "wait", "done", "dead"}
        /\ after = [logins |-> 0, fetches |-> 0, sleeps |-> 0]
        /\ (pc \in {"compute", "wait", "done"} /\ outcome = "ok") =>
              /\ time_ver = cycle
              /\ date_ver = cycle
              /\ tempo_days_time = ParsePayload(response.payload).time
              /\ tempo_days_date = ParsePayload(response.payload).date

C5_Witness ==
    /\ stopPhase = "request"
    /\ pc = "done"
    /\ outcome = "ok"
    /\ tempo_days_time # <<>>
    /\ tempo_days_time # cycleStart.time

\* C6: a cycle that fails in any way leaves both cached views as they
\* were when the cycle started.
C6_FailedCycleKeepsCache ==
    (outcome \in ExceptionOutcomes \cup {"api_error"}) =>
        /\ tempo_days_time = cycleStart.time
        /\ tempo_days_date = cycleStart.date

\* The decoded body carries an error code and an error description.
CarriesError(resp) ==
    /\ resp.json
    /\ {API_KEY_ERROR, API_KEY_ERROR_DESC} \subseteq DOMAIN resp.payload

\* C7: once an error payload has been processed, no record was produced
\* (both views are those of the start of the cycle), the returned end is
\* None, the wait is exactly 10 minutes, and the cycle that follows starts
\* exactly 10 minutes after this one read the clock.
C7_ApiErrorRetriesInTenMinutes ==
    /\ (pc \in {"compute", "wait", "done", "dead"} /\ CarriesError(response)) =>
          /\ outcome = "api_error"
          /\ end = NoneDT
          /\ tempo_days_time = cycleStart.time
          /\ tempo_days_date = cycleStart.date
          /\ (pc \in {"wait", "done"} => wait_time = Minutes(10))
    /\ (pc = "loop" /\ outcome = "api_error") =>
          clock = ToUtc(localized_now) + Minutes(10)
    /\ (pc \in {"login", "fetch"} /\ prevOutcome = "api_error") =>
          clock = ToUtc(localized_now) + Minutes(10)

C7_Witness ==
    /\ prevOutcome = "api_error"
    /\ pc = "request"
    /\ cycle = 2
    /\ clock = ToUtc(localized_now)

\* The decoded body is a calendar: it has the window and its values.
IsCalendar(resp) ==
    /\ resp.json
    /\ API_KEY_RESULTS \in DOMAIN resp.payload
    /\ API_KEY_VALUES \in DOMAIN resp.payload[API_KEY_RESULTS]

ValuesOf(resp) == resp.payload[API_KEY_RESULTS][API_KEY_VALUES]

HasGoodTs(tempo_day, key) == key \in DOMAIN tempo_day /\ tempo_day[key].ok

\* All four fields present and well formed.
WellFormed(tempo_day) ==
    /\ HasGoodTs(tempo_day, API_KEY_START)
    /\ HasGoodTs(tempo_day, API_KEY_END)
    /\ HasGoodTs(tempo_day, API_KEY_UPDATED)
    /\ API_KEY_VALUE \in DOMAIN tempo_day
    /\ tempo_day[API_KEY_VALUE] \in {API_VALUE_RED, API_VALUE_WHITE, API_VALUE_BLUE}

\* The documented exception: no value, start is the literal of 2022-12-28,
\* end and updated present and well formed.
DocumentedException(tempo_day) ==
    /\ API_KEY_VALUE \notin DOMAIN tempo_day
    /\ HasGoodTs(tempo_day, API_KEY_START)
    /\ tempo_day[API_KEY_START] = RawTs(0, 0, Hours(1))
    /\ HasGoodTs(tempo_day, API_KEY_END)
    /\ HasGoodTs(tempo_day, API_KEY_UPDATED)

\* The records the batch is to produce: well-formed entries with their
\* value, the documented exception with BLUE, nothing for the others.
RECURSIVE KeptTime(_)
KeptTime(days) ==
    IF days = <<>> THEN <<>>
    ELSE LET d == Head(days)
         IN  (IF WellFormed(d) THEN <<TimeDay(d, d[API_KEY_VALUE])>>
              ELSE IF DocumentedException(d) THEN <<TimeDay(d, API_VALUE_BLUE)>>
              ELSE <<>>) \o KeptTime(Tail(days))

RECURSIVE KeptDate(_)
KeptDate(days) ==
    IF days = <<>> THEN <<>>
    ELSE LET d == Head(days)
         IN  (IF WellFormed(d) THEN <<DateDay(d, d[API_KEY_VALUE])>>
              ELSE IF DocumentedException(d) THEN <<DateDay(d, API_VALUE_BLUE)>>
              ELSE <<>>) \o KeptDate(Tail(days))

\* The entry is one the skipping rule speaks about: well formed, the
\* documented exception, or defective without the literal start and
\* missing value of the exception.
CoveredBySkipRule(tempo_day) ==
    \/ WellFormed(tempo_day)
    \/ DocumentedException(tempo_day)
    \/ ~(/\ API_KEY_VALUE \notin DOMAIN tempo_day
         /\ API_KEY_START \in DOMAIN tempo_day
         /\ tempo_day[API_KEY_START] = RawTs(0, 0, Hours(1)))

ParseFinished ==
    pc \in {"save_time", "save_date", "return_end", "compute", "wait", "done", "dead"}

\* C8: a defective entry other than the documented exception is skipped:
\* the parsing of the batch does not raise, and the two lists hold exactly
\* the records of the other entries, in order.
C8_DefectiveEntrySkipped ==
    (/\ ParseFinished
     /\ IsCalendar(response)
     /\ \A i \in DOMAIN ValuesOf(response) : CoveredBySkipRule(ValuesOf(response)[i])) =>
        /\ outcome # "exc_parse"
        /\ parsed.time = KeptTime(ValuesOf(response))
        /\ parsed.date = KeptDate(ValuesOf(response))

\* The fetch of the current cycle has stored its two lists.
StoredByThisFetch ==
    /\ IsCalendar(response)
    /\ \/ pc \in {"return_end", "compute", "wait", "done"}
       \/ pc = "dead" /\ outcome = "exc_end"

\* C9: in every fetch that stores its lists, an entry without value whose
\* start is the literal 2022-12-28T00:00:00+01:00 is in both views, at the
\* same index, with Value = BLUE, its start (06:00 that day in the
\* adjusted view, the date in the date-only view), its end and its
\* updated timestamp.
C9_KnownMissingDayKeptBlue ==
    StoredByThisFetch =>
        \A i \in DOMAIN ValuesOf(response) :
            LET d == ValuesOf(response)[i]
            IN  DocumentedException(d) =>
                  \E j \in DOMAIN tempo_days_time \cap DOMAIN tempo_days_date :
                     /\ tempo_days_time[j] =
                          [Start |-> FixedDT(Hours(API_HOUR_OF_CHANGE), Hours(1)),
                           End |-> FixedDT(Days(d[API_KEY_END].day) + d[API_KEY_END].min
                                              + Hours(API_HOUR_OF_CHANGE),
                                           d[API_KEY_END].off),
                           Value |-> API_VALUE_BLUE,
                           Updated |-> FixedDT(Days(d[API_KEY_UPDATED].day)
                                                  + d[API_KEY_UPDATED].min,
                                               d[API_KEY_UPDATED].off)]
                     /\ tempo_days_date[j] =
                          [Start |-> 0,
                           End |-> d[API_KEY_END].day,
                           Value |-> API_VALUE_BLUE,
                           Updated |-> FixedDT(Days(d[API_KEY_UPDATED].day)
                                                  + d[API_KEY_UPDATED].min,
                                               d[API_KEY_UPDATED].off)]

C9_Witness ==
    /\ StoredByThisFetch
    /\ pc = "compute"
    /\ Len(ValuesOf(response)) = 2
    /\ WellFormed(ValuesOf(response)[1])
    /\ DocumentedException(ValuesOf(response)[2])
    /\ Len(tempo_days_time) = 2
    /\ tempo_days_time[2].Value = API_VALUE_BLUE
    /\ tempo_days_date[2].Start = 0

\* C10: whenever the end handed to _compute_wait_time is None, the wait
\* is exactly 10 minutes, whatever the current time.
C10_AbsentEndWaitsTenMinutes ==
    (pc = "wait" /\ end = NoneDT) => wait_time = Minutes(10)

C10_Witness ==
    /\ pc = "wait"
    /\ end = NoneDT
    /\ wait_time = Minutes(10)
    /\ DateOf(localized_now) = DstDay
    /\ localized_now.wall % MinutesPerDay = Hours(23) + 59

\* The days component of latestEnd minus the start of today (local
\* midnight of the day of now), both taken as instants.
EndDiffDays ==
    TdDays(ToUtc(end) - ToUtc(ParisMidnight(DateOf(localized_now))))

\* The time that elapses from now to the next local midnight.
UntilNextMidnight ==
    ToUtc(ParisMidnight(DateOf(localized_now) + 1)) - ToUtc(localized_now)

PlannerReturned == pc = "wait" /\ end # NoneDT

\* C11: with a days component of 2 the wait is exactly the time from now to
\* the next local midnight, hence more than zero and at most 24 hours.
C11_WaitsUntilNextMidnight ==
    (PlannerReturned /\ EndDiffDays = 2) =>
        /\ wait_time = UntilNextMidnight
        /\ wait_time > 0
        /\ wait_time <= Hours(24)

\* C12: with a days component of 1 the wait is exactly 30 minutes.
C12_OneDayWaitsHalfHour ==
    (PlannerReturned /\ EndDiffDays = 1) => wait_time = Minutes(30)

C12_Witness ==
    /\ PlannerReturned
    /\ EndDiffDays = 1
    /\ wait_time = Minutes(30)
    /\ localized_now.wall % MinutesPerDay = Hours(23) + 59
    /\ DateOf(end) = DateOf(localized_now) + 2

\* C13: with any other days component (3 and more, zero, negative) the wait
\* is exactly 60 minutes.
C13_OtherDiffWaitsOneHour ==
    (PlannerReturned /\ EndDiffDays \notin {1, 2}) => wait_time = Minutes(60)

C13_Witness ==
    /\ PlannerReturned
    /\ EndDiffDays < 0
    /\ wait_time = Minutes(60)

\* C14: a request that fails on an expired token is answered by one login
\* and one second request; a failed re-login sends no second request, and a
\* failure of either ends the cycle with the exception.
C14_RetriesExactlyOnce ==
    /\ attempts.gets <= 2
    /\ attempts.logins <= 1
    /\ pc = "relogin" => attempts = [gets |-> 1, logins |-> 0]
    /\ retried => attempts = [gets |-> 2, logins |-> 1]
    /\ (attempts.logins = 1 /\ ~retried) =>
           (pc = "dead" /\ outcome = "exc_relogin" /\ attempts.gets = 1)
    /\ outcome \in {"exc_relogin", "exc_request"} => pc = "dead"

C14_Witness ==
    /\ retried
    /\ pc = "parse"
    /\ attempts = [gets |-> 2, logins |-> 1]
    /\ token = "valid"

\* C15: an iteration that starts without a token logs in first, and no
\* request is prepared or sent while the token is empty.
C15_LoginBeforeRequest ==
    [][ /\ (pc = "loop" /\ token = "empty" /\ pc' # pc) => pc' = "login"
        /\ pc' \in {"fetch", "relogin"} \cup FetchPhases => token' # "empty"
        /\ attempts'.gets > attempts.gets => token # "empty" ]_vars

C15_Witness ==
    /\ pc = "request"
    /\ cycle = 1
    /\ token = "valid"
    /\ attempts = [gets |-> 1, logins |-> 0]

\* C17: get_adjusted_days returns the adjusted view, get_calendar_days the
\* view the preference selects, and once a fetch is over what both return
\* are the lists of the last fetch that returned.
C17_GettersReturnLastSuccessfulFetch ==
    /\ get_adjusted_days = tempo_days_time
    /\ adjusted_days => get_calendar_days = tempo_days_time
    /\ ~adjusted_days => get_calendar_days = tempo_days_date
    /\ pc \notin {"save_time", "save_date", "return_end"} =>
           /\ get_adjusted_days_ver = lastOk
           /\ get_calendar_days_ver = lastOk

\* C18: a call of update_options that changes the preference makes
\* get_calendar_days return the other view and changes nothing else: the two
\* cached views, the token, the stop flag, the worker's position, its
\* iteration count and the wait it is in stay as they are.
C18_UpdateOptionsChangesOnlyPreference ==
    [][ adjusted_days' # adjusted_days =>
          /\ get_calendar_days' =
                 (IF adjusted_days THEN tempo_days_date ELSE tempo_days_time)
          /\ UNCHANGED << tempo_days_time, tempo_days_date, token, stopevent,
                          pc, cycle, clock, workerLocals, outcome >> ]_vars

C18_Witness ==
    /\ options_updated
    /\ pc = "wait"
    /\ ~stopevent
    /\ tempo_days_time # <<>>
    /\ ~adjusted_days
    /\ get_calendar_days = tempo_days_date

\* The last call of a TrybatecAPI method found a token and its expiry.
TbHadToken ==
    /\ tb_call.op # "none"
    /\ tb_call.before.token # NoToken
    /\ tb_call.before.token_expire # NoneDT

\* At the time of the last call the recorded expiry was in the past.
TbExpiryPassed == tb_call.now > ToUtc(tb_call.before.token_expire)

\* C16: a call that finds a token whose recorded expiry is in the past logs
\* in again before it uses the token (a failed login sends no request);
\* one that finds a token whose expiry is not in the past sends no login
\* request and leaves housing_id, token and token_expire as they were.
C16_RefreshComparesNowWithExpiry ==
    TbHadToken =>
        /\ TbExpiryPassed => tb_call.posts = 1
        /\ ~TbExpiryPassed =>
              (tb_call.posts = 0 /\ tb_call.refreshed = tb_call.before)
        /\ tb_call.cause # "none" => tb_call.gets = 0
        /\ tb_call.gets = 1 =>
              (tb_call.bearer = tb_call.refreshed.token /\ tb_call.bearer # NoToken)

C16_Witness ==
    /\ TbHadToken
    /\ TbExpiryPassed
    /\ tb_call.op = "get_data"
    /\ tb_call.posts = 1
    /\ tb_call.gets = 1
    /\ tb_call.refreshed.token # tb_call.before.token
    /\ ToUtc(tb_call.refreshed.token_expire) >= tb_call.now

\* The Trybatec client's side of the rule that a login comes first: a call
\* that finds no recorded expiry sends a login request, and a request is
\* sent only with a token a login has stored.
TbLoginComesFirst ==
    tb_call.op # "none" =>
        /\ tb_call.before.token_expire = NoneDT => tb_call.posts = 1
        /\ tb_call.gets = 1 =>
              (tb_call.bearer = tb_call.refreshed.token /\ tb_call.bearer # NoToken)

\* The sensor whose update ran last.
UpdatedSensor == sensors[last_update.kind][last_update.emoji]

\* 2024-01-01T06:00 to 2024-01-02T06:00 WHITE, then 2024-01-02T06:00 to
\* 2024-01-03T06:00 RED.
FixtureView ==
    << TimeDay(GoodEntry(FixtureDay, API_VALUE_WHITE), API_VALUE_WHITE),
       TimeDay(GoodEntry(FixtureDay + 1, API_VALUE_RED), API_VALUE_RED) >>

\* Positions of the adjusted view whose day contains the instant of the
\* last update, and positions whose day starts after it.
Containing ==
    { i \in 1..Len(tempo_days_time) :
        /\ ToUtc(tempo_days_time[i].Start) <= ToUtc(last_update.now)
        /\ ToUtc(last_update.now) < ToUtc(tempo_days_time[i].End) }

Starting ==
    { i \in 1..Len(tempo_days_time) :
        ToUtc(last_update.now) < ToUtc(tempo_days_time[i].Start) }

Lowest(S) == CHOOSE i \in S : \A j \in S : i <= j

\* C19: the current-colour sensor finds the first record of the adjusted
\* view with Start <= now < End and shows its colour, and finds nothing
\* (unavailable, no value) when there is none; in the view 01-01 06:00 to
\* 01-02 06:00 WHITE, 01-02 06:00 to 01-03 06:00 RED it finds the RED
\* record at 2024-01-02T07:00.
C19_CurrentIsRecordContainingNow ==
    last_update.kind = "current" =>
        /\ Containing = {} =>
               /\ last_update.record = NoRecord
               /\ UpdatedSensor = SensorState(FALSE, None)
        /\ Containing # {} =>
               /\ last_update.record = tempo_days_time[Lowest(Containing)]
               /\ UpdatedSensor =
                      SensorState(TRUE, ColorOf(last_update.emoji, last_update.record.Value))
        /\ (tempo_days_time = FixtureView
            /\ ToUtc(last_update.now) = LocalWinter(FixtureDay + 1, Hours(7))) =>
               /\ last_update.record = FixtureView[2]
               /\ last_update.record.Value = API_VALUE_RED

C19_Witness ==
    /\ last_update.kind = "current"
    /\ tempo_days_time = FixtureView
    /\ ToUtc(last_update.now) = LocalWinter(FixtureDay + 1, Hours(7))
    /\ last_update.record.Value = API_VALUE_RED
    /\ UpdatedSensor = SensorState(TRUE, SENSOR_COLOR_RED_NAME)

\* C20: the next-colour sensor finds the first record, in the order of the
\* adjusted view, whose Start is after now, never one whose Start is now,
\* and finds nothing when there is none.
C20_NextIsFirstRecordStartingLater ==
    last_update.kind = "next" =>
        /\ Starting = {} =>
               /\ last_update.record = NoRecord
               /\ UpdatedSensor = IF last_update.emoji
                                  THEN SensorState(TRUE, SENSOR_COLOR_UNKNOWN_EMOJI)
                                  ELSE SensorState(FALSE, None)
        /\ Starting # {} =>
               /\ last_update.record = tempo_days_time[Lowest(Starting)]
               /\ UpdatedSensor =
                      SensorState(TRUE, ColorOf(last_update.emoji, last_update.record.Value))
        /\ last_update.record # NoRecord =>
               ToUtc(last_update.record.Start) > ToUtc(last_update.now)

C20_Witness ==
    /\ last_update.kind = "next"
    /\ tempo_days_time = FixtureView
    /\ ToUtc(last_update.now) = ToUtc(FixtureView[1].Start)
    /\ last_update.record = FixtureView[2]

\* A record of the adjusted view and a range have an instant in common.
Overlaps(tempo_day, start_date, end_date) ==
    /\ ToUtc(tempo_day.Start) < ToUtc(end_date)
    /\ ToUtc(start_date) < ToUtc(tempo_day.End)

\* C21: a call of async_get_events returns, of the view served to the
\* calendar, exactly the records that overlap the requested range, in the
\* order of the view.
C21_RangeReturnsOverlappingRecords ==
    calendar_events.called =>
        /\ calendar_events.raised = "none"
        /\ adjusted_days =>
               calendar_events.events =
                   SelectSeq(tempo_days_time,
                             LAMBDA d : Overlaps(d, calendar_events.start_date,
                                                 calendar_events.end_date))

\* A raw timestamp as an instant with its own offset, and the same moved
\* by the hour of change.
RawInstant(ts) == FixedDT(Days(ts.day) + ts.min, ts.off)
RawShifted(ts) ==
    FixedDT(Days(ts.day) + ts.min + Hours(API_HOUR_OF_CHANGE), ts.off)

\* The records at index j of the two views are those of raw entry d.
RecordsOf(d, j) ==
    /\ tempo_days_time[j].Start = RawShifted(d[API_KEY_START])
    /\ tempo_days_time[j].End = RawShifted(d[API_KEY_END])
    /\ tempo_days_date[j].Start = d[API_KEY_START].day
    /\ tempo_days_date[j].End = d[API_KEY_END].day
    /\ tempo_days_time[j].Value = tempo_days_date[j].Value
    /\ API_KEY_VALUE \in DOMAIN d => tempo_days_time[j].Value = d[API_KEY_VALUE]
    /\ tempo_days_time[j].Updated = RawInstant(d[API_KEY_UPDATED])
    /\ tempo_days_date[j].Updated = RawInstant(d[API_KEY_UPDATED])

GoodBoundaries(d) ==
    /\ HasGoodTs(d, API_KEY_START)
    /\ HasGoodTs(d, API_KEY_END)
    /\ HasGoodTs(d, API_KEY_UPDATED)

\* C22: in a fetch that stores its lists, the two views have the same
\* length, the records at each index come from one raw entry (Start and End
\* moved by the hour of change in the adjusted view, cut to their date in
\* the date-only view, same value, same updated timestamp), and every raw
\* entry with a value and well-formed timestamps has its records.
C22_BothViewsFromSameEntry ==
    StoredByThisFetch =>
        /\ Len(tempo_days_time) = Len(tempo_days_date)
        /\ \A j \in DOMAIN tempo_days_time :
              \E i \in DOMAIN ValuesOf(response) :
                 /\ GoodBoundaries(ValuesOf(response)[i])
                 /\ RecordsOf(ValuesOf(response)[i], j)
        /\ \A i \in DOMAIN ValuesOf(response) :
              (/\ GoodBoundaries(ValuesOf(response)[i])
               /\ API_KEY_VALUE \in DOMAIN ValuesOf(response)[i]) =>
                 \E j \in DOMAIN tempo_days_time : RecordsOf(ValuesOf(response)[i], j)

C22_Witness ==
    /\ StoredByThisFetch
    /\ pc = "compute"
    /\ Len(ValuesOf(response)) = 2
    /\ WellFormed(ValuesOf(response)[1])
    /\ GoodBoundaries(ValuesOf(response)[2])
    /\ API_KEY_VALUE \in DOMAIN ValuesOf(response)[2]
    /\ ValuesOf(response)[2][API_KEY_VALUE] = "PURPLE"
    /\ Len(tempo_days_time) = 2
    /\ tempo_days_time[1].Start = FixedDT(Days(ParseDay) + Hours(6), Hours(1))
    /\ tempo_days_date[1].Start = ParseDay
    /\ tempo_days_date[1].End = ParseDay + 1

\* The fetch of the current cycle has returned and every entry of its
\* payload is well formed.
FetchedWellFormed ==
    /\ pc \in {"compute", "wait", "done"}
    /\ outcome = "ok"
    /\ \A i \in DOMAIN ValuesOf(response) : WellFormed(ValuesOf(response)[i])

\* The adjusted record of a raw entry.
AdjustedRecord(d) ==
    [Start |-> RawShifted(d[API_KEY_START]),
     End |-> RawShifted(d[API_KEY_END]),
     Value |-> d[API_KEY_VALUE],
     Updated |-> RawInstant(d[API_KEY_UPDATED])]

\* C23: after a successful fetch of well-formed entries get_adjusted_days
\* is, index by index, the list of their adjusted records: none dropped,
\* duplicated or reordered, and nothing left of an earlier fetch.
C23_RoundTrip ==
    FetchedWellFormed =>
        /\ Len(get_adjusted_days) = Len(ValuesOf(response))
        /\ \A i \in DOMAIN ValuesOf(response) :
              get_adjusted_days[i] = AdjustedRecord(ValuesOf(response)[i])

C23_Witness ==
    /\ FetchedWellFormed
    /\ cycle = 2
    /\ prevOutcome = "ok"
    /\ cycleStart.time # << >>
    /\ Len(get_adjusted_days) = 2
    /\ get_adjusted_days # cycleStart.time
    /\ get_adjusted_days[1].Value = API_VALUE_WHITE
    /\ get_adjusted_days[2].Value = API_VALUE_RED

\* The last entry of the payload of the current fetch.
LastEntry == ValuesOf(response)[Len(ValuesOf(response))]

\* C24: the end a successful fetch returns is the raw end boundary of the
\* last entry of its payload, without the hour of change, and the wait of
\* the same cycle is computed from it.
C24_LatestEndIsLastEntryEnd ==
    (FetchedWellFormed /\ ValuesOf(response) # << >>) =>
        /\ end = RawInstant(LastEntry[API_KEY_END])
        /\ pc \in {"wait", "done"} =>
               wait_time = compute_wait_time(localized_now,
                                             RawInstant(LastEntry[API_KEY_END]))

\* C25: as long as no fetch has returned, both views are empty (outside the
\* two steps in which a fetch stores them); once a fetch has returned, a
\* cycle that fails does not leave a view empty.
C25_CacheEmptyUntilFirstSuccess ==
    /\ (lastOk = 0 /\ pc \notin {"save_date", "return_end"}) =>
           (tempo_days_time = << >> /\ tempo_days_date = << >>)
    /\ (lastOk > 0 /\ outcome \in ExceptionOutcomes \cup {"api_error"}) =>
           (tempo_days_time # << >> /\ tempo_days_date # << >>)

\* C26: the cached views change only in the two storing steps of the
\* worker, a token is obtained only by the worker's login steps, and a
\* call of update_options, signalstop or the getters leaves the token and
\* both views as they are.
C26_OnlyWorkerWrites ==
    [][ /\ tempo_days_time' # tempo_days_time =>
               (pc = "save_time" /\ pc' = "save_date")
        /\ tempo_days_date' # tempo_days_date =>
               (pc = "save_date" /\ pc' = "return_end")
        /\ (token' # token /\ token' # "expired") =>
               (pc \in {"login", "relogin"} /\ pc' # pc)
        /\ (adjusted_days' # adjusted_days \/ stopevent' # stopevent \/ obs' # obs) =>
               UNCHANGED << token, tempo_days_time, tempo_days_date >> ]_vars

C26_Witness ==
    /\ obs.adjusted > 0
    /\ obs.adjusted = time_ver
    /\ options_updated
    /\ stopevent
    /\ pc = "done"
    /\ token = "valid"
    /\ tempo_days_time # << >>
    /\ tempo_days_date # << >>

\* The sensor and calendar queries leave the token and both views as they
\* are.
QueriesNeverWrite ==
    [][ UNCHANGED << token, tempo_days_time, tempo_days_date >> ]_vars

\* The order of the steps of a cycle: token, fetch, cache replace,
\* computeWait, sleep, and from the sleep to the next cycle or to the end.
CycleOrder ==
    { <<"init", "loop">>, <<"loop", "login">>, <<"loop", "fetch">>,
      <<"login", "fetch">>, <<"fetch", "request">>, <<"fetch", "relogin">>,
      <<"relogin", "request">>, <<"request", "parse">>,
      <<"parse", "save_time">>, <<"save_time", "save_date">>,
      <<"save_date", "return_end">>, <<"return_end", "compute">>,
      <<"parse", "compute">>, <<"compute", "wait">>,
      <<"wait", "loop">>, <<"wait", "done">> }

\* A cycle given up before it has touched the cache.
FailsBeforeReplace ==
    { <<"login", "dead">>, <<"relogin", "dead">>, <<"request", "dead">>,
      <<"parse", "dead">> }

\* C27: the worker moves through its cycle in the one order token, fetch,
\* cache replace, computeWait, sleep; the cache is replaced only in a cycle
\* whose fetch succeeds (a cycle that fails does so before the replace),
\* and a fetch starts only from the top of the loop, which is reached only
\* from the start or from a wait that timed out.
C27_StrictlySequential ==
    [][ pc' # pc =>
          /\ <<pc, pc'>> \in CycleOrder \cup FailsBeforeReplace
          /\ pc' = "loop" => (pc = "init" \/ (pc = "wait" /\ ~stopevent)) ]_vars

\* The lifecycle state of the worker.
Lifecycle ==
    IF pc = "init" THEN "STOPPED_NEW"
    ELSE IF pc \in {"done", "dead"} THEN "STOPPED"
    ELSE IF stopevent THEN "STOPPING"
    ELSE "RUNNING"

\* C28: the worker goes from STOPPED to RUNNING to STOPPING to STOPPED only,
\* so it has stopped only after a stop signal; once stopped it does not
\* log in, fetch or write the cache.
C28_LifecycleTransitions ==
    [][ /\ Lifecycle' # Lifecycle =>
              <<Lifecycle, Lifecycle'>> \in
                  { <<"STOPPED_NEW", "RUNNING">>, <<"STOPPED_NEW", "STOPPING">>,
                    <<"RUNNING", "STOPPING">>, <<"STOPPING", "STOPPED">> }
        /\ pc \in {"done", "dead"} =>
              (pc' = pc /\ UNCHANGED << tempo_days_time, tempo_days_date, attempts >>
               /\ (token' # token => token' = "expired")) ]_vars

\* The day of the current cycle: the local date when its fetch began (the
\* clock stands still while a fetch is in progress).
CycleToday == DateOf(NowParis(clock))

\* C29: the request of every cycle asks for the window from local midnight
\* 364 days before today to local midnight 2 days after today, today being
\* the local date at the time of that cycle.
C29_WindowRecomputedEachCycle ==
    pc \in {"relogin"} \cup FetchPhases =>
        /\ params.start_date =
               RawTs(CycleToday - 364, 0, ParisOffsetWall(Days(CycleToday - 364)))
        /\ params.end_date =
               RawTs(CycleToday + 2, 0, ParisOffsetWall(Days(CycleToday + 2)))

C29_Witness ==
    /\ pc = "request"
    /\ cycle = 2
    /\ CycleToday = DstDay
    /\ params.start_date = RawTs(PrevDstDay, 0, WinterOffset)
    /\ params.end_date = RawTs(DstDay + 2, 0, SummerOffset)

\* latestEnd minus the start of today, as a duration.
EndDiff == ToUtc(end) - ToUtc(ParisMidnight(DateOf(localized_now)))

\* C30: the wait is 30 minutes when the difference is exactly 1 day, the
\* wait until midnight when it is exactly 2 days, and 1 hour for every
\* other difference, 1 or 2 days plus some hours included.
C30_ThresholdsExact ==
    PlannerReturned =>
        /\ EndDiff = Days(1) => wait_time = Minutes(30)
        /\ EndDiff = Days(2) =>
               wait_time = DtSub(ParisMidnight(DateOf(localized_now) + 1), localized_now)
        /\ EndDiff \notin {Days(1), Days(2)} => wait_time = Hours(1)

----------------------------------------------------------------------------
(* The sleep between two cycles: run, lines 91-93 *)

\* C31: unless the stop signal arrives first, the loop sleeps for exactly
\* the duration _compute_wait_time returned in that cycle, whatever that
\* duration is, a whole day included: every step from the wait to the next
\* cycle advances the clock by wait_time.
C31_SleepsWholeWait ==
    [][(pc = "wait" /\ pc' = "loop") => clock' - clock = wait_time]_vars

----------------------------------------------------------------------------
(* The two stored views, index by index: lines 209-264 *)

\* The day of the raw start an adjusted record was made of: its Start
\* without the hours adjust_tempo_time added.
RawStartDay(rec) == DateOf(DtAdd(rec.Start, 0 - Hours(API_HOUR_OF_CHANGE)))

\* The views have the same length and, at every index, records of one raw
\* entry.
ViewsAligned ==
    /\ Len(tempo_days_time) = Len(tempo_days_date)
    /\ \A i \in DOMAIN tempo_days_time :
          /\ tempo_days_time[i].Value = tempo_days_date[i].Value
          /\ tempo_days_time[i].Updated = tempo_days_date[i].Updated
          /\ tempo_days_date[i].Start = RawStartDay(tempo_days_time[i])

\* C32: in every state the worker reaches, the adjusted view and the
\* date-only view have the same length and the two records at each index
\* come from the same raw entry (same Value, same Updated, and the date-only
\* Start is the date of the raw start of the adjusted record).
C32_ViewsAlignedInEveryState == ViewsAligned

----------------------------------------------------------------------------
(* Termination after signalstop: run and signalstop, lines 78-104 *)

\* The threads of the termination argument: the worker, the caller of
\* signalstop and the token's lifetime. The readers and update_options do
\* not touch what the loop tests.
NextLive == Worker \/ SignalStop \/ TokenExpires

\* APIWorker.__init__ with the default preference, which only the getters
\* read.
InitLive == Init /\ ~adjusted_days

\* The worker thread is scheduled again and again, and each of its steps,
\* an HTTP call included, returns or raises: weak fairness of its steps.
SpecLive == InitLive /\ [][NextLive]_vars /\ WF_vars(Worker)

\* The thread has left run, by its return or by an exception.
Terminated == pc \in {"done", "dead"}

\* C33: once signalstop has been called, whenever that is, the worker
\* eventually terminates, and it starts at most one fetch after the signal.
C33_StopTerminates ==
    /\ stopevent ~> Terminated
    /\ [](after.fetches <= 1)

\* The signal came before the thread was started; the thread then made its
\* one login and fetch and ended without sleeping.
C33_Witness ==
    /\ stopPhase = "init"
    /\ pc = "done"
    /\ after.logins = 1
    /\ after.fetches = 1
    /\ after.sleeps = 0

----------------------------------------------------------------------------
(* TrybatecAPI.token and TrybatecAPI.token_expire after _login *)

\* The token and the expiry are both absent, or the expiry is the one the
\* held token carries.
TokenPaired ==
    \/ tb_token = NoToken /\ token_expire = NoneDT
    \/ /\ tb_token # NoToken
       /\ tb_token.b64
       /\ tb_token.json
       /\ "exp" \in DOMAIN tb_token.claims
       /\ token_expire = FromTimestampUtc(tb_token.claims["exp"])

\* C34: after every outcome of _login, token and token_expire are both set
\* from the same login response or both absent; a token is never held with
\* the expiry of another token or with no expiry.
C34_TokenAndExpiryPaired == TokenPaired

----------------------------------------------------------------------------
(* The Consumption sensor's daily update *)

\* The last call of async_update came on a day for which an earlier update
\* had obtained data.
SameDayAsData ==
    /\ last_async_update.called
    /\ last_async_update.had_data_on = last_async_update.day

\* The last call of async_update is the first one on a day later than the
\* day of the last data.
LaterDayThanData ==
    /\ last_async_update.called
    /\ last_async_update.had_data_on >= 0
    /\ last_async_update.had_data_on < last_async_update.day

\* C35: the Consumption sensor updates only once a day: after an update
\* that obtained data, a further async_update on the same calendar day sends
\* no data request, and the first call on a later day sends one (unless its
\* login fails).
C35_OneDataRequestADay ==
    /\ SameDayAsData => last_async_update.requests = 0
    /\ LaterDayThanData =>
          \/ last_async_update.requests = 1
          \/ last_async_update.cause # "none"

----------------------------------------------------------------------------
(* The StatsAPI singleton, its clients and its polling task *)

\* The last call was the creation of an EntryAPIAccess.
Created == last_stats_call.op = "create"

\* The last call was an unload, that is a call of unregister_api_client.
Unregistered == last_stats_call.op = "unload"

\* C36: StatsAPI is a singleton that keeps its state: an instantiation
\* returns the instance that exists, and the creation of an EntryAPIAccess
\* while others are registered keeps their registrations and the cached
\* statistics, so that every created and not unloaded entry is in clients.
C36_SingletonKeepsState ==
    Created =>
        /\ last_stats_call.instance_before # 0 =>
              /\ last_stats_call.instance = last_stats_call.instance_before
              /\ last_stats_call.after.stats = last_stats_call.before.stats
              /\ last_stats_call.before.clients.ids \subseteq
                     last_stats_call.after.clients.ids
        /\ last_stats_call.entries_before \subseteq
               last_stats_call.before.clients.ids =>
              last_stats_call.entries_before \cup {last_stats_call.id}
                  \subseteq last_stats_call.after.clients.ids

\* The polling tasks that are not done.
AliveTasks == { i \in DOMAIN tasks : tasks[i] \in {"scheduled", "fetching", "sleeping"} }

\* C37: at most one polling task of the singleton is alive, whatever the
\* creations and unloads; a task runs as long as a client is registered,
\* and each refresh that got an answer notifies every registered client.
C37_OnePollingTask ==
    /\ Cardinality(AliveTasks) <= 1
    /\ entries # {} => AliveTasks # {}
    /\ (last_refresh.done /\ last_refresh.fetched) =>
          last_refresh.notified = last_refresh.clients

\* C38: unregister_api_client removes exactly the named client, leaves the
\* others registered and returns how many are left; when none is left it
\* cancels the polling task and nullifies the singleton.
C38_UnregisterRemovesNamedClient ==
    Unregistered =>
        /\ last_stats_call.raised = "none"
        /\ last_stats_call.after.clients.present
        /\ last_stats_call.after.clients.ids =
               last_stats_call.before.clients.ids \ {last_stats_call.id}
        /\ last_stats_call.result =
               Cardinality(last_stats_call.after.clients.ids)
        /\ last_stats_call.result = 0 =>
              /\ last_stats_call.instance = 0
              /\ tasks[last_stats_call.before.task] \in {"cancelled", "finished"}

====
